---- MODULE Spec2Model ----
(***************************************************************************)
(* Usage metering and overage billing of the Stylora backend:              *)
(*   - email quota tracking        (server/emailLimits.ts)                 *)
(*   - SMS package tracking        (smsPackagesRouter, server/_core/index.ts) *)
(*   - overage invoices and Stripe (server/emailOverageBilling.ts)         *)
(*   - Stripe webhook events       (server/stripeWebhook.ts)               *)
(*                                                                         *)
(* Every handler is an async function; each `await` on the database or on  *)
(* Stripe is a point where other requests run.  A handler is therefore     *)
(* modelled as a chain of steps, one per awaited call, taken by a request  *)
(* slot p; the handler's locals live in local[p], and the response it      *)
(* ends with (a returned value or a thrown error) is kept in result until  *)
(* the next response is sent.                                              *)
(*                                                                         *)
(* Money is kept in hundredths (the code stores decimal strings made by    *)
(* toFixed(2)); a nullable column is a set with at most one element.       *)
(***************************************************************************)
EXTENDS Integers, Sequences, FiniteSets, TLC

\* ------------------------------------------------------------------ bounds
MaxSends == 2          \* send requests (email and SMS each) that are started
MaxClock == 1          \* month boundaries the clock crosses
MaxInvoices == 2       \* rows inserted into emailOverageInvoices
MaxRemote == 2         \* invoices created at the payment provider
MaxEvents == 2         \* payment notifications handled
maxRequests == 2       \* requests the rate limiter admits per window
windowMs == 2          \* length of a rate limiter window, in clock steps

\* ------------------------------------------------------- program constants
DefaultEmailLimit == 500     \* tenant.emailMonthlyLimit || 500
DefaultEmailRate == 10       \* parseFloat(tenant.emailOverageRate || "0.10")
DefaultSmsRate == 100        \* parseFloat(tenant.smsOverageRate || "1.00")
DefaultVatRate == 2500       \* parseFloat(tenant.vatRate || "25.00")
DueDays == 30                \* dueDate.setDate(dueDate.getDate() + 30)

\* ------------------------------------------------------------------- sets
Procs == {"p1", "p2"}
ExistingTenants == {"t1"}            \* ids that have a row in `tenants`
TenantIds == ExistingTenants \cup {"t0"}   \* "t0": a session whose tenant row is gone
None == {}
Some(v) == {v}
Val(o) == CHOOSE v \in o : TRUE

\* The wall clock, in months since the start: new Date() read as
\* getFullYear()/getMonth().  The start is December so that the first
\* boundary crossed is also a year boundary.
BaseYear == 2025
BaseMonth == 11
YearOf(n) == BaseYear + ((BaseMonth + n) \div 12)
MonthOf(n) == (BaseMonth + n) % 12
\* new Date(now.getFullYear(), now.getMonth(), 1)
FirstOfMonth(n) == [year |-> YearOf(n), month |-> MonthOf(n), day |-> 1]

VARIABLES
    tenants,               \* table tenants: id -> row
    emailUsageLogs,        \* table emailUsageLogs, in insertion order
    smsUsageLogs,          \* table smsUsageLogs, in insertion order
    emailOverageInvoices,  \* table emailOverageInvoices; the id is the index
    smsOverageInvoices,    \* table smsOverageInvoices; the id is the index
    stripe,                \* the payment provider's customers and invoices
    now,                   \* the wall clock, in months since the start
    pc,                    \* per request slot: the await it is suspended at
    local,                 \* per request slot: the handler's local variables
    result,                \* the response sent last: who got it, what was returned or thrown
    sends,                 \* send requests started so far (bounds the run)
    events,                \* payment notifications handled so far (bounds the run)
    rateLimitMap           \* _core/schema.ts: identifier -> {count, resetAt}

vars == <<tenants, emailUsageLogs, smsUsageLogs, emailOverageInvoices,
          smsOverageInvoices, stripe, now, pc, local, result, sends, events,
          rateLimitMap>>

db == <<tenants, emailUsageLogs, smsUsageLogs, emailOverageInvoices,
        smsOverageInvoices>>

NoLocal == [op |-> "none"]
NoResult == [to |-> "none", op |-> "none", code |-> "none"]

\* A thrown TRPCError / Error, and a returned value.
Thrown(p, op, code) == [to |-> p, op |-> op, code |-> code]
Returned(p, op, payload) == [to |-> p, op |-> op, code |-> "OK", value |-> payload]
\* A returned value of a handler that read the clock: `at` is the `new Date()` it used.
ReturnedAt(p, op, payload, n) ==
    [to |-> p, op |-> op, code |-> "OK", value |-> payload, at |-> n]

\* FindTenant that finds a row whatever the id.
FindTenant_AnyRow(id) == Some(tenants[CHOOSE t \in DOMAIN tenants : TRUE])

\* dbInstance.query.tenants.findFirst({ where: eq(tenants.id, id) })
FindTenant(id) == IF id \in DOMAIN tenants THEN Some(tenants[id]) ELSE None

\* The local `tenant` of a send handler: the row as it was read.  The handler
\* computes everything it writes right after the read, so of the row only the
\* period it belonged to is kept.
RowRead(tenant) == [currentMonthStart |-> tenant.currentMonthStart]

Max(a, b) == IF a >= b THEN a ELSE b

\* `x || d` on a number column: null and 0 are both falsy.
OrDefault(x, d) == IF x = None \/ x = Some(0) THEN d ELSE Val(x)
\* `x || d` on a decimal-string column: only null (or "") is falsy, "0.00" is not.
OrDefaultStr(x, d) == IF x = None THEN d ELSE Val(x)

\* ------------------------------------------------------------------- Init
InitTenantRows ==
    { [ emailMonthlyLimit   |-> Some(lim),
        emailOverageRate    |-> Some(10),
        emailsSentThisMonth |-> Some(0),
        emailOverageCharge  |-> Some(0),
        smsPackageSize      |-> Some(size),
        smsPackageActive    |-> Some(size > 0),
        smsOverageRate      |-> Some(100),
        smsSentThisMonth    |-> Some(0),
        smsOverageCharge    |-> Some(0),
        currentMonthStart   |-> start,
        vatRate             |-> Some(2500),
        stripeCustomerId    |-> None ] :
      lim \in {1}, size \in {0, 1}, start \in {None, Some(FirstOfMonth(0))} }

\* An SMS overage invoice already mirrored at the provider (the SMS billing
\* router that creates these rows is outside the files modelled here).
InitSmsInvoices ==
    << [ tenantId |-> "t1", invoiceNumber |-> "SMS-1", status |-> "pending",
         stripeInvoiceId |-> Some(0), paidAt |-> None ] >>

Init ==
    /\ tenants \in [ExistingTenants -> InitTenantRows]
    /\ emailUsageLogs = << >>
    /\ smsUsageLogs = << >>
    /\ emailOverageInvoices = << >>
    /\ smsOverageInvoices = InitSmsInvoices
    /\ stripe = [customers |-> 0, invoices |-> << >>]
    /\ now = 0
    /\ pc = [p \in Procs |-> "idle"]
    /\ local = [p \in Procs |-> NoLocal]
    /\ result = NoResult
    /\ sends = 0
    /\ events = 0
    /\ rateLimitMap = << >>

\* A handler ends: it returns or throws r.
Finish(p, r) ==
    /\ pc' = [pc EXCEPT ![p] = "idle"]
    /\ local' = [local EXCEPT ![p] = NoLocal]
    /\ result' = r

\* A handler suspends at its next await, with locals l.
Goto(p, label, l) ==
    /\ pc' = [pc EXCEPT ![p] = label]
    /\ local' = [local EXCEPT ![p] = l]
    /\ UNCHANGED result

\* -------------------------------------------------------------- the clock
Tick ==
    /\ now < MaxClock
    /\ now' = now + 1
    /\ UNCHANGED <<db, stripe, pc, local, result, sends, events, rateLimitMap>>

\* ------------------------------------------- emailLimits.ts: trackEmailSend
\* lines 104-117: read the tenant row, compute the new counter and charge.
TrackEmailSend_Find(p, t) ==
    /\ pc[p] = "idle"
    /\ sends < MaxSends
    /\ sends' = sends + 1
    /\ LET found == FindTenant(t) IN
       IF found = None
       THEN Finish(p, Thrown(p, "trackEmailSend", "NOT_FOUND"))
       ELSE LET tenant == Val(found)
                used == OrDefault(tenant.emailsSentThisMonth, 0) + 1
                limit == OrDefault(tenant.emailMonthlyLimit, DefaultEmailLimit)
                isOverage == used > limit
                overageRate == OrDefaultStr(tenant.emailOverageRate, DefaultEmailRate)
                overageCost == IF isOverage THEN overageRate ELSE 0
                total == OrDefaultStr(tenant.emailOverageCharge, 0) + overageCost
            IN Goto(p, "trackEmailSend_update",
                    [op |-> "trackEmailSend", tenantId |-> t, tenant |-> RowRead(tenant),
                     used |-> used, limit |-> limit, isOverage |-> isOverage,
                     overageCost |-> overageCost, totalOverageCharge |-> total])
    /\ UNCHANGED <<db, stripe, now, rateLimitMap, events>>

\* lines 119-125: update tenants set emailsSentThisMonth, emailOverageCharge.
TrackEmailSend_Update(p) ==
    /\ pc[p] = "trackEmailSend_update"
    /\ LET l == local[p] IN
       tenants' = IF l.tenantId \in DOMAIN tenants
                  THEN [tenants EXCEPT ![l.tenantId] =
                          [@ EXCEPT !.emailsSentThisMonth = Some(l.used),
                                    !.emailOverageCharge = Some(l.totalOverageCharge)]]
                  ELSE tenants
    /\ Goto(p, "trackEmailSend_log", local[p])
    /\ UNCHANGED <<emailUsageLogs, smsUsageLogs, emailOverageInvoices,
                   smsOverageInvoices, stripe, now, rateLimitMap, sends, events>>

\* The log statement written as an upsert of the tenant's latest row.
TrackEmailSend_Log_Overwrites(p) ==
    /\ pc[p] = "trackEmailSend_log"
    /\ LET l == local[p] IN
       /\ emailUsageLogs' =
              << [tenantId |-> l.tenantId, status |-> "sent", isOverage |-> l.isOverage,
                  overageCost |-> l.overageCost, sentAt |-> now] >>
       /\ Finish(p, Returned(p, "trackEmailSend",
              [isOverage |-> l.isOverage, overageCost |-> l.overageCost,
               totalUsed |-> l.used, remaining |-> Max(0, l.limit - l.used)]))
    /\ UNCHANGED <<tenants, smsUsageLogs, emailOverageInvoices, smsOverageInvoices,
                   stripe, now, rateLimitMap, sends, events>>

\* lines 127-144: insert the usage log row, return.
TrackEmailSend_Log(p) ==
    /\ pc[p] = "trackEmailSend_log"
    /\ LET l == local[p] IN
       /\ emailUsageLogs' = Append(emailUsageLogs,
              [tenantId |-> l.tenantId, status |-> "sent", isOverage |-> l.isOverage,
               overageCost |-> l.overageCost, sentAt |-> now])
       /\ Finish(p, Returned(p, "trackEmailSend",
              [isOverage |-> l.isOverage, overageCost |-> l.overageCost,
               totalUsed |-> l.used, remaining |-> Max(0, l.limit - l.used)]))
    /\ UNCHANGED <<tenants, smsUsageLogs, emailOverageInvoices, smsOverageInvoices,
                   stripe, now, rateLimitMap, sends, events>>

\* -------------------------------------- smsPackagesRouter: trackSmsSend
\* _core/index.ts lines 429-450.
TrackSmsSend_Find(p, t) ==
    /\ pc[p] = "idle"
    /\ sends < MaxSends
    /\ sends' = sends + 1
    /\ LET found == FindTenant(t) IN
       IF found = None
       THEN Finish(p, Thrown(p, "trackSmsSend", "NOT_FOUND"))
       ELSE LET tenant == Val(found) IN
            IF tenant.smsPackageActive \in {None, Some(FALSE)}
            THEN Finish(p, Thrown(p, "trackSmsSend", "FORBIDDEN"))
            ELSE LET used == OrDefault(tenant.smsSentThisMonth, 0) + 1
                     packageSize == OrDefault(tenant.smsPackageSize, 0)
                     isOverage == used > packageSize
                     overageRate == OrDefaultStr(tenant.smsOverageRate, DefaultSmsRate)
                     overageCost == IF isOverage THEN overageRate ELSE 0
                     total == OrDefaultStr(tenant.smsOverageCharge, 0) + overageCost
                 IN Goto(p, "trackSmsSend_update",
                         [op |-> "trackSmsSend", tenantId |-> t, tenant |-> RowRead(tenant),
                          used |-> used, limit |-> packageSize, isOverage |-> isOverage,
                          overageCost |-> overageCost, totalOverageCharge |-> total])
    /\ UNCHANGED <<db, stripe, now, rateLimitMap, events>>

\* _core/index.ts lines 452-458.
TrackSmsSend_Update(p) ==
    /\ pc[p] = "trackSmsSend_update"
    /\ LET l == local[p] IN
       tenants' = IF l.tenantId \in DOMAIN tenants
                  THEN [tenants EXCEPT ![l.tenantId] =
                          [@ EXCEPT !.smsSentThisMonth = Some(l.used),
                                    !.smsOverageCharge = Some(l.totalOverageCharge)]]
                  ELSE tenants
    /\ Goto(p, "trackSmsSend_log", local[p])
    /\ UNCHANGED <<emailUsageLogs, smsUsageLogs, emailOverageInvoices,
                   smsOverageInvoices, stripe, now, rateLimitMap, sends, events>>

\* _core/index.ts lines 460-478.
TrackSmsSend_Log(p) ==
    /\ pc[p] = "trackSmsSend_log"
    /\ LET l == local[p] IN
       /\ smsUsageLogs' = Append(smsUsageLogs,
              [tenantId |-> l.tenantId, status |-> "sent", isOverage |-> l.isOverage,
               overageCost |-> l.overageCost, sentAt |-> now])
       /\ Finish(p, Returned(p, "trackSmsSend",
              [isOverage |-> l.isOverage, overageCost |-> l.overageCost,
               totalUsed |-> l.used, remaining |-> Max(0, l.limit - l.used)]))
    /\ UNCHANGED <<tenants, emailUsageLogs, emailOverageInvoices, smsOverageInvoices,
                   stripe, now, rateLimitMap, sends, events>>

\* ------------------------------------------------ emailLimits.ts: getUsage
\* NeedsReset with the years left out of monthsDiff.
NeedsReset_MonthOnly(tenant, n) ==
    IF tenant.currentMonthStart = None
    THEN TRUE
    ELSE MonthOf(n) - Val(tenant.currentMonthStart).month >= 1

\* lines 33-45: does the stored period start lie in an earlier month than n?
NeedsReset(tenant, n) ==
    IF tenant.currentMonthStart = None
    THEN TRUE
    ELSE LET currentMonthStart == Val(tenant.currentMonthStart)
             monthsDiff == (YearOf(n) - currentMonthStart.year) * 12
                           + (MonthOf(n) - currentMonthStart.month)
         IN monthsDiff >= 1

\* Math.round((used / limit) * 100): to the nearest integer, halves up.
RoundPercent(used, limit) == (200 * used + limit) \div (2 * limit)

\* lines 57-66: the view returned after a reset.
EmailResetView(tenant) ==
    [ limit |-> OrDefault(tenant.emailMonthlyLimit, DefaultEmailLimit),
      used |-> 0,
      remaining |-> OrDefault(tenant.emailMonthlyLimit, DefaultEmailLimit),
      overageCount |-> 0,
      overageCharge |-> 0,
      overageRate |-> OrDefaultStr(tenant.emailOverageRate, DefaultEmailRate),
      percentUsed |-> 0 ]

\* lines 69-86: the view computed from the row that was read.
EmailUsageView(tenant) ==
    LET used == OrDefault(tenant.emailsSentThisMonth, 0)
        limit == OrDefault(tenant.emailMonthlyLimit, DefaultEmailLimit)
    IN [ limit |-> limit,
         used |-> used,
         remaining |-> Max(0, limit - used),
         overageCount |-> Max(0, used - limit),
         overageCharge |-> OrDefaultStr(tenant.emailOverageCharge, 0),
         overageRate |-> OrDefaultStr(tenant.emailOverageRate, DefaultEmailRate),
         percentUsed |-> IF limit > 0 THEN RoundPercent(used, limit) ELSE 0 ]

\* lines 24-47 and 69-86: read the row; without a reset the view is returned at once.
GetUsage_Find(p, t) ==
    /\ pc[p] = "idle"
    /\ LET found == FindTenant(t) IN
       IF found = None
       THEN Finish(p, Thrown(p, "getUsage", "NOT_FOUND"))
       ELSE LET tenant == Val(found) IN
            IF NeedsReset(tenant, now)
            THEN Goto(p, "getUsage_reset",
                         [op |-> "getUsage", tenantId |-> t, now |-> now,
                          view |-> EmailResetView(tenant)])
            ELSE Finish(p, ReturnedAt(p, "getUsage", EmailUsageView(tenant), now))
    /\ UNCHANGED <<db, stripe, now, rateLimitMap, sends, events>>

\* lines 47-67: persist the reset, return the reset view.
GetUsage_Reset(p) ==
    /\ pc[p] = "getUsage_reset"
    /\ LET l == local[p] IN
       /\ tenants' = IF l.tenantId \in DOMAIN tenants
                     THEN [tenants EXCEPT ![l.tenantId] =
                             [@ EXCEPT !.emailsSentThisMonth = Some(0),
                                       !.emailOverageCharge = Some(0),
                                       !.currentMonthStart = Some(FirstOfMonth(l.now))]]
                     ELSE tenants
       /\ Finish(p, ReturnedAt(p, "getUsage", l.view, l.now))
    /\ UNCHANGED <<emailUsageLogs, smsUsageLogs, emailOverageInvoices,
                   smsOverageInvoices, stripe, now, rateLimitMap, sends, events>>

\* ------------------------------------------ smsPackagesRouter: getUsage
\* _core/index.ts lines 324-334.
SmsResetView(tenant) ==
    [ packageSize |-> OrDefault(tenant.smsPackageSize, 0),
      packageActive |-> (tenant.smsPackageActive = Some(TRUE)),
      used |-> 0,
      remaining |-> OrDefault(tenant.smsPackageSize, 0),
      overageCount |-> 0,
      overageCharge |-> 0,
      overageRate |-> OrDefaultStr(tenant.smsOverageRate, DefaultSmsRate),
      percentUsed |-> 0 ]

\* _core/index.ts lines 337-355.
SmsUsageView(tenant) ==
    LET used == OrDefault(tenant.smsSentThisMonth, 0)
        packageSize == OrDefault(tenant.smsPackageSize, 0)
    IN [ packageSize |-> packageSize,
         packageActive |-> (tenant.smsPackageActive = Some(TRUE)),
         used |-> used,
         remaining |-> Max(0, packageSize - used),
         overageCount |-> Max(0, used - packageSize),
         overageCharge |-> OrDefaultStr(tenant.smsOverageCharge, 0),
         overageRate |-> OrDefaultStr(tenant.smsOverageRate, DefaultSmsRate),
         percentUsed |-> IF packageSize > 0 THEN RoundPercent(used, packageSize) ELSE 0 ]

\* _core/index.ts lines 291-314 and 337-355.
SmsGetUsage_Find(p, t) ==
    /\ pc[p] = "idle"
    /\ LET found == FindTenant(t) IN
       IF found = None
       THEN Finish(p, Thrown(p, "sms.getUsage", "NOT_FOUND"))
       ELSE LET tenant == Val(found) IN
            IF NeedsReset(tenant, now)
            THEN Goto(p, "smsGetUsage_reset",
                         [op |-> "sms.getUsage", tenantId |-> t, now |-> now,
                          view |-> SmsResetView(tenant)])
            ELSE Finish(p, ReturnedAt(p, "sms.getUsage", SmsUsageView(tenant), now))
    /\ UNCHANGED <<db, stripe, now, rateLimitMap, sends, events>>

\* _core/index.ts lines 314-335.
SmsGetUsage_Reset(p) ==
    /\ pc[p] = "smsGetUsage_reset"
    /\ LET l == local[p] IN
       /\ tenants' = IF l.tenantId \in DOMAIN tenants
                     THEN [tenants EXCEPT ![l.tenantId] =
                             [@ EXCEPT !.smsSentThisMonth = Some(0),
                                       !.smsOverageCharge = Some(0),
                                       !.currentMonthStart = Some(FirstOfMonth(l.now))]]
                     ELSE tenants
       /\ Finish(p, ReturnedAt(p, "sms.getUsage", l.view, l.now))
    /\ UNCHANGED <<emailUsageLogs, smsUsageLogs, emailOverageInvoices,
                   smsOverageInvoices, stripe, now, rateLimitMap, sends, events>>

\* ------------------------------ emailOverageBilling.ts: generateMonthlyInvoice
\* Billing period bounds are ISO date strings; a date is kept as the number of
\* days since 2025-12-01 (December has 31 days, January 31).
BillingPeriodStarts == {0, 31}
BillingPeriodEnds == {30, 61}
\* date.getFullYear(), date.getMonth() + 1 of a period end.
YearMonthOf(day) == IF day < 31 THEN <<2025, 12>> ELSE <<2026, 1>>

\* lines 22-27: INV-<year><month>-<first 8 characters of the tenant id>.
generateInvoiceNumber(tenantId, date) == <<"INV", YearMonthOf(date), tenantId>>

\* x.toFixed(2) of the quotient num / den (in hundredths): nearest, halves up.
ToFixed2(num, den) == (2 * num + den) \div (2 * den)

\* ExistingInvoice with the two period bounds compared the wrong way round.
ExistingInvoice_Swapped(t, start, end) ==
    { i \in DOMAIN emailOverageInvoices :
        /\ emailOverageInvoices[i].tenantId = t
        /\ emailOverageInvoices[i].billingPeriodStart = end
        /\ emailOverageInvoices[i].billingPeriodEnd = start }

\* lines 54-60: findFirst on (tenantId, billingPeriodStart, billingPeriodEnd).
ExistingInvoice(t, start, end) ==
    { i \in DOMAIN emailOverageInvoices :
        /\ emailOverageInvoices[i].tenantId = t
        /\ emailOverageInvoices[i].billingPeriodStart = start
        /\ emailOverageInvoices[i].billingPeriodEnd = end }

\* lines 45-51: read the tenant row.
GenerateMonthlyInvoice_FindTenant(p, t, start, end) ==
    /\ pc[p] = "idle"
    /\ Len(emailOverageInvoices)
         + Cardinality({q \in Procs : local[q].op = "generateMonthlyInvoice"}) < MaxInvoices
    /\ LET found == FindTenant(t) IN
       IF found = None
       THEN Finish(p, Thrown(p, "generateMonthlyInvoice", "NOT_FOUND"))
       ELSE Goto(p, "generateMonthlyInvoice_existing",
                 [op |-> "generateMonthlyInvoice", tenantId |-> t,
                  billingPeriodStart |-> start, billingPeriodEnd |-> end,
                  tenant |-> Val(found)])
    /\ UNCHANGED <<db, stripe, now, rateLimitMap, sends, events>>

\* InvoiceValues with the overage not floored at 0.
InvoiceValues_Unfloored(tenantId, start, end, tenant) ==
    LET emailsOverLimit ==
            OrDefault(tenant.emailsSentThisMonth, 0)
              - OrDefault(tenant.emailMonthlyLimit, DefaultEmailLimit)
        overageRate == OrDefaultStr(tenant.emailOverageRate, DefaultEmailRate)
        subtotal == emailsOverLimit * overageRate
        vatRate == OrDefaultStr(tenant.vatRate, DefaultVatRate)
    IN [ tenantId |-> tenantId,
         invoiceNumber |-> generateInvoiceNumber(tenantId, end),
         billingPeriodStart |-> start,
         billingPeriodEnd |-> end,
         emailsOverLimit |-> emailsOverLimit,
         overageRate |-> overageRate,
         subtotal |-> subtotal,
         vatRate |-> vatRate,
         vatAmount |-> ToFixed2(subtotal * vatRate, 10000),
         totalAmount |-> ToFixed2(subtotal * 10000 + subtotal * vatRate, 10000),
         status |-> "pending",
         dueDate |-> end + DueDays,
         stripeInvoiceId |-> None,
         paidAt |-> None ]

\* lines 66-100: the values of the row to insert, from the tenant row read.
InvoiceValues(tenantId, start, end, tenant) ==
    LET emailsOverLimit ==
            Max(0, OrDefault(tenant.emailsSentThisMonth, 0)
                   - OrDefault(tenant.emailMonthlyLimit, DefaultEmailLimit))
        overageRate == OrDefaultStr(tenant.emailOverageRate, DefaultEmailRate)
        subtotal == emailsOverLimit * overageRate
        vatRate == OrDefaultStr(tenant.vatRate, DefaultVatRate)
    IN [ tenantId |-> tenantId,
         invoiceNumber |-> generateInvoiceNumber(tenantId, end),
         billingPeriodStart |-> start,
         billingPeriodEnd |-> end,
         emailsOverLimit |-> emailsOverLimit,
         overageRate |-> overageRate,
         subtotal |-> subtotal,
         vatRate |-> vatRate,
         vatAmount |-> ToFixed2(subtotal * vatRate, 10000),
         totalAmount |-> ToFixed2(subtotal * 10000 + subtotal * vatRate, 10000),
         status |-> "pending",
         dueDate |-> end + DueDays,
         stripeInvoiceId |-> None,
         paidAt |-> None ]

\* lines 53-84: the existence check, then the overage; the amounts for the insert.
GenerateMonthlyInvoice_Existing(p) ==
    /\ pc[p] = "generateMonthlyInvoice_existing"
    /\ LET l == local[p]
           row == InvoiceValues(l.tenantId, l.billingPeriodStart, l.billingPeriodEnd,
                                l.tenant)
       IN
       IF ExistingInvoice(l.tenantId, l.billingPeriodStart, l.billingPeriodEnd) # {}
       THEN Finish(p, Thrown(p, "generateMonthlyInvoice", "CONFLICT"))
       ELSE IF row.emailsOverLimit = 0
       THEN Finish(p, Thrown(p, "generateMonthlyInvoice", "BAD_REQUEST"))
       ELSE Goto(p, "generateMonthlyInvoice_insert",
                 [op |-> "generateMonthlyInvoice", row |-> row])
    /\ UNCHANGED <<db, stripe, now, rateLimitMap, sends, events>>

\* The insert with the due date counted from the start of the period.
GenerateMonthlyInvoice_Insert_DueFromStart(p) ==
    /\ pc[p] = "generateMonthlyInvoice_insert"
    /\ emailOverageInvoices' =
           Append(emailOverageInvoices,
                  [local[p].row EXCEPT !.dueDate = local[p].row.billingPeriodStart + DueDays])
    /\ Finish(p, Returned(p, "generateMonthlyInvoice",
                          [invoiceId |-> Len(emailOverageInvoices) + 1,
                           invoiceNumber |-> local[p].row.invoiceNumber,
                           totalAmount |-> local[p].row.totalAmount]))
    /\ UNCHANGED <<tenants, emailUsageLogs, smsUsageLogs, smsOverageInvoices,
                   stripe, now, rateLimitMap, sends, events>>

\* lines 86-108: insert the row, return its id.
GenerateMonthlyInvoice_Insert(p) ==
    /\ pc[p] = "generateMonthlyInvoice_insert"
    /\ emailOverageInvoices' = Append(emailOverageInvoices, local[p].row)
    /\ Finish(p, Returned(p, "generateMonthlyInvoice",
                          [invoiceId |-> Len(emailOverageInvoices) + 1,
                           invoiceNumber |-> local[p].row.invoiceNumber,
                           totalAmount |-> local[p].row.totalAmount]))
    /\ UNCHANGED <<tenants, emailUsageLogs, smsUsageLogs, smsOverageInvoices,
                   stripe, now, rateLimitMap, sends, events>>

\* --------------------------------- emailOverageBilling.ts: createStripeInvoice
\* StripeThrows that also marks the caller's invoice as failed.
StripeThrows_MarksFailed(p) ==
    /\ Finish(p, Thrown(p, "createStripeInvoice", "STRIPE_ERROR"))
    /\ emailOverageInvoices' =
           [emailOverageInvoices EXCEPT ![local[p].invoiceId].status = "failed"]
    /\ UNCHANGED <<tenants, emailUsageLogs, smsUsageLogs, smsOverageInvoices,
                   stripe, now, rateLimitMap, sends, events>>

\* A call to Stripe either succeeds or throws (an API error, a timeout).
StripeThrows(p) ==
    /\ Finish(p, Thrown(p, "createStripeInvoice", "STRIPE_ERROR"))
    /\ UNCHANGED <<db, stripe, now, rateLimitMap, sends, events>>

\* CreateStripeInvoice_FindInvoice without the check of the status.
CreateStripeInvoice_FindInvoice_AnyStatus(p, t, invoiceId) ==
    /\ pc[p] = "idle"
    /\ Len(stripe.invoices)
         + Cardinality({q \in Procs : local[q].op = "createStripeInvoice"}) < MaxRemote
    /\ IF ~( /\ invoiceId \in DOMAIN emailOverageInvoices
             /\ emailOverageInvoices[invoiceId].tenantId = t )
       THEN Finish(p, Thrown(p, "createStripeInvoice", "NOT_FOUND"))
       ELSE Goto(p, "createStripeInvoice_tenant",
                 [op |-> "createStripeInvoice", tenantId |-> t,
                  invoiceId |-> invoiceId, stripeCustomerId |-> None,
                  stripeInvoiceId |-> None])
    /\ UNCHANGED <<db, stripe, now, rateLimitMap, sends, events>>

\* lines 119-132: the caller's invoice, which must be pending.
CreateStripeInvoice_FindInvoice(p, t, invoiceId) ==
    /\ pc[p] = "idle"
    /\ Len(stripe.invoices)
         + Cardinality({q \in Procs : local[q].op = "createStripeInvoice"}) < MaxRemote
    /\ IF ~( /\ invoiceId \in DOMAIN emailOverageInvoices
             /\ emailOverageInvoices[invoiceId].tenantId = t )
       THEN Finish(p, Thrown(p, "createStripeInvoice", "NOT_FOUND"))
       ELSE IF emailOverageInvoices[invoiceId].status # "pending"
       THEN Finish(p, Thrown(p, "createStripeInvoice", "BAD_REQUEST"))
       ELSE Goto(p, "createStripeInvoice_tenant",
                 [op |-> "createStripeInvoice", tenantId |-> t,
                  invoiceId |-> invoiceId, stripeCustomerId |-> None,
                  stripeInvoiceId |-> None])
    /\ UNCHANGED <<db, stripe, now, rateLimitMap, sends, events>>

\* lines 134-145: the tenant row and its Stripe customer, if it has one.
CreateStripeInvoice_FindTenant(p) ==
    /\ pc[p] = "createStripeInvoice_tenant"
    /\ LET found == FindTenant(local[p].tenantId) IN
       IF found = None
       THEN Finish(p, Thrown(p, "createStripeInvoice", "NOT_FOUND"))
       ELSE IF Val(found).stripeCustomerId = None
       THEN Goto(p, "createStripeInvoice_customer", local[p])
       ELSE Goto(p, "createStripeInvoice_invoice",
                 [local[p] EXCEPT !.stripeCustomerId = Val(found).stripeCustomerId])
    /\ UNCHANGED <<db, stripe, now, rateLimitMap, sends, events>>

\* lines 146-154: stripe.customers.create.
CreateStripeInvoice_CustomerCreate(p) ==
    /\ pc[p] = "createStripeInvoice_customer"
    /\ \/ /\ stripe' = [stripe EXCEPT !.customers = @ + 1]
          /\ Goto(p, "createStripeInvoice_saveCustomer",
                  [local[p] EXCEPT !.stripeCustomerId = Some(stripe.customers + 1)])
          /\ UNCHANGED <<db, now, rateLimitMap, sends, events>>
       \/ StripeThrows(p)

\* CreateStripeInvoice_SaveCustomer that does not store the customer id.
CreateStripeInvoice_SaveCustomer_Forgets(p) ==
    /\ pc[p] = "createStripeInvoice_saveCustomer"
    /\ Goto(p, "createStripeInvoice_invoice", local[p])
    /\ UNCHANGED <<db, stripe, now, rateLimitMap, sends, events>>

\* lines 156-159: update tenants set stripeCustomerId.
CreateStripeInvoice_SaveCustomer(p) ==
    /\ pc[p] = "createStripeInvoice_saveCustomer"
    /\ tenants' = [tenants EXCEPT ![local[p].tenantId].stripeCustomerId =
                                      local[p].stripeCustomerId]
    /\ Goto(p, "createStripeInvoice_invoice", local[p])
    /\ UNCHANGED <<emailUsageLogs, smsUsageLogs, emailOverageInvoices,
                   smsOverageInvoices, stripe, now, rateLimitMap, sends, events>>

\* lines 162-173: stripe.invoices.create, a draft invoice with our invoice id.
CreateStripeInvoice_InvoiceCreate(p) ==
    /\ pc[p] = "createStripeInvoice_invoice"
    /\ \/ /\ stripe' = [stripe EXCEPT !.invoices =
                          Append(@, [customer |-> Val(local[p].stripeCustomerId),
                                     invoiceId |-> local[p].invoiceId,
                                     amount |-> None,
                                     status |-> "draft"])]
          /\ Goto(p, "createStripeInvoice_item",
                  [local[p] EXCEPT !.stripeInvoiceId = Some(Len(stripe.invoices) + 1)])
          /\ UNCHANGED <<db, now, rateLimitMap, sends, events>>
       \/ StripeThrows(p)

\* lines 175-182: stripe.invoiceItems.create, the total in cents.
CreateStripeInvoice_InvoiceItem(p) ==
    /\ pc[p] = "createStripeInvoice_item"
    /\ \/ /\ stripe' = [stripe EXCEPT !.invoices[Val(local[p].stripeInvoiceId)].amount =
                          Some(emailOverageInvoices[local[p].invoiceId].totalAmount)]
          /\ Goto(p, "createStripeInvoice_finalize", local[p])
          /\ UNCHANGED <<db, now, rateLimitMap, sends, events>>
       \/ StripeThrows(p)

\* line 185: stripe.invoices.finalizeInvoice.
CreateStripeInvoice_Finalize(p) ==
    /\ pc[p] = "createStripeInvoice_finalize"
    /\ \/ /\ stripe' = [stripe EXCEPT !.invoices[Val(local[p].stripeInvoiceId)].status =
                          "open"]
          /\ Goto(p, "createStripeInvoice_save", local[p])
          /\ UNCHANGED <<db, now, rateLimitMap, sends, events>>
       \/ StripeThrows(p)

\* lines 187-198: store the Stripe invoice id on our invoice.
CreateStripeInvoice_SaveInvoice(p) ==
    /\ pc[p] = "createStripeInvoice_save"
    /\ emailOverageInvoices' =
           [emailOverageInvoices EXCEPT ![local[p].invoiceId].stripeInvoiceId =
                                            local[p].stripeInvoiceId]
    /\ Finish(p, Returned(p, "createStripeInvoice",
                          [stripeInvoiceId |-> Val(local[p].stripeInvoiceId)]))
    /\ UNCHANGED <<tenants, emailUsageLogs, smsUsageLogs, smsOverageInvoices,
                   stripe, now, rateLimitMap, sends, events>>

\* ------------------------------------------------ payment notifications
\* Stripe invoice ids a notification may carry: 0 is the SMS invoice of Init,
\* 1..MaxRemote are made by createStripeInvoice, MaxRemote + 1 is an invoice
\* this system never created (a test event, an unrelated charge).
EventInvoiceIds == 0..(MaxRemote + 1)
\* invoice.status_transition.paid_at / input.paidAt: timestamps of the provider.
PaidAts == {1, 2}

\* select ... where stripeInvoiceId = sid limit 1 (the first matching row).
FindByStripeId(table, sid) ==
    LET hits == {i \in DOMAIN table : table[i].stripeInvoiceId = Some(sid)}
    IN IF hits = {} THEN None
       ELSE Some(CHOOSE i \in hits : \A j \in hits : i <= j)

\* ------------------------- stripeWebhook.ts: handleInvoicePaymentSucceeded
\* lines 148-154 and 40-50: the event is dispatched; look for an email invoice.
PaymentSucceeded_FindEmail(p, sid, paidAt) ==
    /\ pc[p] = "idle"
    /\ events < MaxEvents
    /\ events' = events + 1
    /\ LET emailInvoice == FindByStripeId(emailOverageInvoices, sid) IN
       IF emailInvoice # None
       THEN Goto(p, "paymentSucceeded_updateEmail",
                 [op |-> "invoice.payment_succeeded", stripeInvoiceId |-> sid,
                  paidAt |-> paidAt, id |-> Val(emailInvoice),
                  invoice |-> emailOverageInvoices[Val(emailInvoice)]])
       ELSE Goto(p, "paymentSucceeded_findSms",
                 [op |-> "invoice.payment_succeeded", stripeInvoiceId |-> sid,
                  paidAt |-> paidAt])
    /\ UNCHANGED <<db, stripe, now, rateLimitMap, sends>>

\* lines 51-63: update the email invoice: paid, paidAt.
PaymentSucceeded_UpdateEmail(p) ==
    /\ pc[p] = "paymentSucceeded_updateEmail"
    /\ emailOverageInvoices' =
           [emailOverageInvoices EXCEPT ![local[p].id] =
               [@ EXCEPT !.status = "paid", !.paidAt = Some(local[p].paidAt)]]
    /\ Finish(p, Returned(p, "invoice.payment_succeeded",
                          [type |-> "email", id |-> local[p].id]))
    /\ UNCHANGED <<tenants, emailUsageLogs, smsUsageLogs, smsOverageInvoices,
                   stripe, now, rateLimitMap, sends, events>>

\* lines 65-72 and 86-87: look for an SMS invoice; none: warn, return null.
PaymentSucceeded_FindSms(p) ==
    /\ pc[p] = "paymentSucceeded_findSms"
    /\ LET smsInvoice == FindByStripeId(smsOverageInvoices, local[p].stripeInvoiceId) IN
       IF smsInvoice # None
       THEN Goto(p, "paymentSucceeded_updateSms",
                 local[p] @@ [id |-> Val(smsInvoice),
                              invoice |-> smsOverageInvoices[Val(smsInvoice)]])
       ELSE Finish(p, Returned(p, "invoice.payment_succeeded", [type |-> "null"]))
    /\ UNCHANGED <<db, stripe, now, rateLimitMap, sends, events>>

\* lines 73-84: update the SMS invoice: paid, paidAt.
PaymentSucceeded_UpdateSms(p) ==
    /\ pc[p] = "paymentSucceeded_updateSms"
    /\ smsOverageInvoices' =
           [smsOverageInvoices EXCEPT ![local[p].id] =
               [@ EXCEPT !.status = "paid", !.paidAt = Some(local[p].paidAt)]]
    /\ Finish(p, Returned(p, "invoice.payment_succeeded",
                          [type |-> "sms", id |-> local[p].id]))
    /\ UNCHANGED <<tenants, emailUsageLogs, smsUsageLogs, emailOverageInvoices,
                   stripe, now, rateLimitMap, sends, events>>

\* ---------------------------- stripeWebhook.ts: handleInvoicePaymentFailed
\* lines 156-157 and 99-108.
PaymentFailed_FindEmail(p, sid) ==
    /\ pc[p] = "idle"
    /\ events < MaxEvents
    /\ events' = events + 1
    /\ LET emailInvoice == FindByStripeId(emailOverageInvoices, sid) IN
       IF emailInvoice # None
       THEN Goto(p, "paymentFailed_updateEmail",
                 [op |-> "invoice.payment_failed", stripeInvoiceId |-> sid,
                  id |-> Val(emailInvoice),
                  invoice |-> emailOverageInvoices[Val(emailInvoice)]])
       ELSE Goto(p, "paymentFailed_findSms",
                 [op |-> "invoice.payment_failed", stripeInvoiceId |-> sid])
    /\ UNCHANGED <<db, stripe, now, rateLimitMap, sends>>

\* lines 109-119.
PaymentFailed_UpdateEmail(p) ==
    /\ pc[p] = "paymentFailed_updateEmail"
    /\ emailOverageInvoices' =
           [emailOverageInvoices EXCEPT ![local[p].id].status = "failed"]
    /\ Finish(p, Returned(p, "invoice.payment_failed",
                          [type |-> "email", id |-> local[p].id]))
    /\ UNCHANGED <<tenants, emailUsageLogs, smsUsageLogs, smsOverageInvoices,
                   stripe, now, rateLimitMap, sends, events>>

\* lines 121-128 and 141-142.
PaymentFailed_FindSms(p) ==
    /\ pc[p] = "paymentFailed_findSms"
    /\ LET smsInvoice == FindByStripeId(smsOverageInvoices, local[p].stripeInvoiceId) IN
       IF smsInvoice # None
       THEN Goto(p, "paymentFailed_updateSms",
                 local[p] @@ [id |-> Val(smsInvoice),
                              invoice |-> smsOverageInvoices[Val(smsInvoice)]])
       ELSE Finish(p, Returned(p, "invoice.payment_failed", [type |-> "null"]))
    /\ UNCHANGED <<db, stripe, now, rateLimitMap, sends, events>>

\* lines 129-139.
PaymentFailed_UpdateSms(p) ==
    /\ pc[p] = "paymentFailed_updateSms"
    /\ smsOverageInvoices' =
           [smsOverageInvoices EXCEPT ![local[p].id].status = "failed"]
    /\ Finish(p, Returned(p, "invoice.payment_failed",
                          [type |-> "sms", id |-> local[p].id]))
    /\ UNCHANGED <<tenants, emailUsageLogs, smsUsageLogs, emailOverageInvoices,
                   stripe, now, rateLimitMap, sends, events>>

\* ---------------------- emailOverageBilling.ts: handleStripeWebhook procedure
\* lines 306-312: the invoice with this Stripe id, or NOT_FOUND.
HandleStripeWebhook_Find(p, sid, status, paidAt) ==
    /\ pc[p] = "idle"
    /\ events < MaxEvents
    /\ events' = events + 1
    /\ LET invoice == FindByStripeId(emailOverageInvoices, sid) IN
       IF invoice = None
       THEN Finish(p, Thrown(p, "handleStripeWebhook", "NOT_FOUND"))
       ELSE Goto(p, "handleStripeWebhook_updateInvoice",
                 [op |-> "handleStripeWebhook", stripeInvoiceId |-> sid,
                  status |-> status, paidAt |-> paidAt, id |-> Val(invoice),
                  invoice |-> emailOverageInvoices[Val(invoice)]])
    /\ UNCHANGED <<db, stripe, now, rateLimitMap, sends>>

\* lines 314-322: update the invoice: status, paidAt (null when not given).
HandleStripeWebhook_UpdateInvoice(p) ==
    /\ pc[p] = "handleStripeWebhook_updateInvoice"
    /\ emailOverageInvoices' =
           [emailOverageInvoices EXCEPT ![local[p].id] =
               [@ EXCEPT !.status = local[p].status, !.paidAt = local[p].paidAt]]
    /\ IF local[p].status = "paid"
       THEN Goto(p, "handleStripeWebhook_resetCharge", local[p])
       ELSE Finish(p, Returned(p, "handleStripeWebhook", [success |-> TRUE]))
    /\ UNCHANGED <<tenants, emailUsageLogs, smsUsageLogs, smsOverageInvoices,
                   stripe, now, rateLimitMap, sends, events>>

\* lines 322-330: paid: the tenant's overage charge back to "0.00".
HandleStripeWebhook_ResetCharge(p) ==
    /\ pc[p] = "handleStripeWebhook_resetCharge"
    /\ tenants' = IF local[p].invoice.tenantId \in DOMAIN tenants
                  THEN [tenants EXCEPT ![local[p].invoice.tenantId].emailOverageCharge =
                                           Some(0)]
                  ELSE tenants
    /\ Finish(p, Returned(p, "handleStripeWebhook", [success |-> TRUE]))
    /\ UNCHANGED <<emailUsageLogs, smsUsageLogs, emailOverageInvoices,
                   smsOverageInvoices, stripe, now, rateLimitMap, sends, events>>

\* ---------------------------------------------------------- specifications
\* A tenant in the middle of a billing period, over its email limit: n emails
\* sent against a limit of 1, each one above the limit charged and logged.
BilledRow(n) ==
    [ emailMonthlyLimit   |-> Some(1),
      emailOverageRate    |-> Some(10),
      emailsSentThisMonth |-> Some(n),
      emailOverageCharge  |-> Some((n - 1) * 10),
      smsPackageSize      |-> Some(1),
      smsPackageActive    |-> Some(TRUE),
      smsOverageRate      |-> Some(100),
      smsSentThisMonth    |-> Some(0),
      smsOverageCharge    |-> Some(0),
      currentMonthStart   |-> Some(FirstOfMonth(0)),
      vatRate             |-> Some(2500),
      stripeCustomerId    |-> None ]

BilledLogs(n) ==
    [ k \in 1..n |-> [ tenantId |-> "t1", status |-> "sent", isOverage |-> k > 1,
                       overageCost |-> IF k > 1 THEN 10 ELSE 0, sentAt |-> 0 ] ]

InitBilled ==
    /\ \E n \in {2} :
          /\ tenants = [t \in ExistingTenants |-> BilledRow(n)]
          /\ emailUsageLogs = BilledLogs(n)
    /\ smsUsageLogs = << >>
    /\ emailOverageInvoices = << >>
    /\ smsOverageInvoices = InitSmsInvoices
    /\ stripe = [customers |-> 0, invoices |-> << >>]
    /\ now = 0
    /\ pc = [p \in Procs |-> "idle"]
    /\ local = [p \in Procs |-> NoLocal]
    /\ result = NoResult
    /\ sends = 0
    /\ events = 0
    /\ rateLimitMap = << >>

\* The same tenant after generateMonthlyInvoice for December and
\* createStripeInvoice have run: one pending invoice, mirrored at the provider
\* as its invoice 1 for its customer 1.
InitMirrored ==
    /\ \E n \in {2, 3} :
          /\ tenants = [t \in ExistingTenants |->
                          [BilledRow(n) EXCEPT !.stripeCustomerId = Some(1)]]
          /\ emailUsageLogs = BilledLogs(n)
          /\ emailOverageInvoices =
                << [InvoiceValues("t1", 0, 30, BilledRow(n))
                       EXCEPT !.stripeInvoiceId = Some(1)] >>
          /\ stripe = [customers |-> 1,
                       invoices |-> << [customer |-> 1, invoiceId |-> 1,
                                        amount |-> Some(InvoiceValues("t1", 0, 30,
                                                        BilledRow(n)).totalAmount),
                                        status |-> "open"] >>]
    /\ smsUsageLogs = << >>
    /\ smsOverageInvoices = InitSmsInvoices
    /\ now = 0
    /\ pc = [p \in Procs |-> "idle"]
    /\ local = [p \in Procs |-> NoLocal]
    /\ result = NoResult
    /\ sends = 0
    /\ events = 0
    /\ rateLimitMap = << >>

SendNext ==
    \E p \in Procs :
        \/ \E t \in TenantIds : TrackEmailSend_Find(p, t)
        \/ TrackEmailSend_Update(p)
        \/ TrackEmailSend_Log(p)
        \/ \E t \in TenantIds : TrackSmsSend_Find(p, t)
        \/ TrackSmsSend_Update(p)
        \/ TrackSmsSend_Log(p)

\* Concurrent send requests within one billing period.
SpecSend == Init /\ [][SendNext]_vars

MeterNext ==
    \/ Tick
    \/ \E p \in Procs :
        \/ \E t \in TenantIds : TrackEmailSend_Find(p, t)
        \/ TrackEmailSend_Update(p)
        \/ TrackEmailSend_Log(p)
        \/ \E t \in TenantIds : TrackSmsSend_Find(p, t)
        \/ TrackSmsSend_Update(p)
        \/ TrackSmsSend_Log(p)
        \/ \E t \in TenantIds : GetUsage_Find(p, t)
        \/ GetUsage_Reset(p)
        \/ \E t \in TenantIds : SmsGetUsage_Find(p, t)
        \/ SmsGetUsage_Reset(p)

\* Sends and usage queries of both resources, across month boundaries.
SpecMeter == Init /\ [][MeterNext]_vars

\* A tenant with an active SMS package of 1 that has sent k SMS in the period,
\* the one above the package charged and logged; the period start is unset
\* as long as no usage query has run (a send never sets it).
MeteredRow(k, start) ==
    [ emailMonthlyLimit   |-> Some(1),
      emailOverageRate    |-> Some(10),
      emailsSentThisMonth |-> Some(0),
      emailOverageCharge  |-> Some(0),
      smsPackageSize      |-> Some(1),
      smsPackageActive    |-> Some(TRUE),
      smsOverageRate      |-> Some(100),
      smsSentThisMonth    |-> Some(k),
      smsOverageCharge    |-> Some(Max(0, k - 1) * 100),
      currentMonthStart   |-> start,
      vatRate             |-> Some(2500),
      stripeCustomerId    |-> None ]

MeteredLogs(k) ==
    [ i \in 1..k |-> [ tenantId |-> "t1", status |-> "sent", isOverage |-> i > 1,
                       overageCost |-> IF i > 1 THEN 100 ELSE 0, sentAt |-> 0 ] ]

InitMetered ==
    /\ \E k \in {0, 2}, start \in {None, Some(FirstOfMonth(0))} :
          /\ tenants = [t \in ExistingTenants |-> MeteredRow(k, start)]
          /\ smsUsageLogs = MeteredLogs(k)
    /\ emailUsageLogs = << >>
    /\ emailOverageInvoices = << >>
    /\ smsOverageInvoices = InitSmsInvoices
    /\ stripe = [customers |-> 0, invoices |-> << >>]
    /\ now = 0
    /\ pc = [p \in Procs |-> "idle"]
    /\ local = [p \in Procs |-> NoLocal]
    /\ result = NoResult
    /\ sends = 0
    /\ events = 0
    /\ rateLimitMap = << >>

UsageNext ==
    \/ Tick
    \/ \E p \in Procs :
        \/ \E t \in TenantIds : TrackEmailSend_Find(p, t)
        \/ TrackEmailSend_Update(p)
        \/ TrackEmailSend_Log(p)
        \/ \E t \in TenantIds : GetUsage_Find(p, t)
        \/ GetUsage_Reset(p)
        \/ \E t \in TenantIds : SmsGetUsage_Find(p, t)
        \/ SmsGetUsage_Reset(p)

\* Usage queries of both resources across month boundaries, with email sends
\* going on, for a tenant that has SMS usage in the running period.
SpecUsage == InitMetered /\ [][UsageNext]_vars

InvoiceNext ==
    \E p \in Procs :
        \/ \E t \in TenantIds, start \in BillingPeriodStarts, end \in BillingPeriodEnds :
               GenerateMonthlyInvoice_FindTenant(p, t, start, end)
        \/ GenerateMonthlyInvoice_Existing(p)
        \/ GenerateMonthlyInvoice_Insert(p)
        \/ \E t \in TenantIds : TrackEmailSend_Find(p, t)
        \/ TrackEmailSend_Update(p)
        \/ TrackEmailSend_Log(p)

\* Invoice generation requests, concurrent with each other and with sends.
SpecInvoice == InitBilled /\ [][InvoiceNext]_vars

BridgeNext ==
    \E p \in Procs :
        \/ \E t \in TenantIds, start \in BillingPeriodStarts, end \in BillingPeriodEnds :
               GenerateMonthlyInvoice_FindTenant(p, t, start, end)
        \/ GenerateMonthlyInvoice_Existing(p)
        \/ GenerateMonthlyInvoice_Insert(p)
        \/ \E t \in TenantIds, id \in 1..MaxInvoices :
               CreateStripeInvoice_FindInvoice(p, t, id)
        \/ CreateStripeInvoice_FindTenant(p)
        \/ CreateStripeInvoice_CustomerCreate(p)
        \/ CreateStripeInvoice_SaveCustomer(p)
        \/ CreateStripeInvoice_InvoiceCreate(p)
        \/ CreateStripeInvoice_InvoiceItem(p)
        \/ CreateStripeInvoice_Finalize(p)
        \/ CreateStripeInvoice_SaveInvoice(p)

\* Invoices and their mirroring at the provider.
SpecBridge == InitBilled /\ [][BridgeNext]_vars

PayNext ==
    \E p \in Procs :
        \/ \E sid \in EventInvoiceIds, paidAt \in PaidAts :
               PaymentSucceeded_FindEmail(p, sid, paidAt)
        \/ PaymentSucceeded_UpdateEmail(p)
        \/ PaymentSucceeded_FindSms(p)
        \/ PaymentSucceeded_UpdateSms(p)
        \/ \E sid \in EventInvoiceIds : PaymentFailed_FindEmail(p, sid)
        \/ PaymentFailed_UpdateEmail(p)
        \/ PaymentFailed_FindSms(p)
        \/ PaymentFailed_UpdateSms(p)
        \/ \E sid \in EventInvoiceIds, status \in {"paid", "failed"},
              paidAt \in {None} \cup {Some(x) : x \in PaidAts} :
               HandleStripeWebhook_Find(p, sid, status, paidAt)
        \/ HandleStripeWebhook_UpdateInvoice(p)
        \/ HandleStripeWebhook_ResetCharge(p)
        \/ \E t \in TenantIds : TrackEmailSend_Find(p, t)
        \/ TrackEmailSend_Update(p)
        \/ TrackEmailSend_Log(p)

\* Payment notifications for mirrored invoices, with sends going on.
SpecPay == InitMirrored /\ [][PayNext]_vars

ProcedureNext ==
    \E p \in Procs :
        \/ \E sid \in EventInvoiceIds, status \in {"paid", "failed"},
              paidAt \in {None} \cup {Some(x) : x \in PaidAts} :
               HandleStripeWebhook_Find(p, sid, status, paidAt)
        \/ HandleStripeWebhook_UpdateInvoice(p)
        \/ HandleStripeWebhook_ResetCharge(p)
        \/ \E t \in TenantIds : TrackEmailSend_Find(p, t)
        \/ TrackEmailSend_Update(p)
        \/ TrackEmailSend_Log(p)

\* Payment notifications that all come in through the handleStripeWebhook
\* procedure, with sends going on.
SpecProcedure == InitMirrored /\ [][ProcedureNext]_vars

\* A tenant whose email limit L and overage rate r were set by
\* updateCustomLimit (emailLimits.ts lines 257-272; the limit may be 0, the
\* rate "0.00"), and that has sent u emails in the period since: as
\* trackEmailSend counted, charged and logged them.
CustomRow(L, r, u) ==
    [ emailMonthlyLimit   |-> Some(L),
      emailOverageRate    |-> Some(r),
      emailsSentThisMonth |-> Some(u),
      emailOverageCharge  |-> Some(Max(0, u - OrDefault(Some(L), DefaultEmailLimit)) * r),
      smsPackageSize      |-> Some(1),
      smsPackageActive    |-> Some(TRUE),
      smsOverageRate      |-> Some(100),
      smsSentThisMonth    |-> Some(0),
      smsOverageCharge    |-> Some(0),
      currentMonthStart   |-> Some(FirstOfMonth(0)),
      vatRate             |-> Some(2500),
      stripeCustomerId    |-> None ]

CustomLogs(L, r, u) ==
    [ i \in 1..u |->
        [ tenantId |-> "t1", status |-> "sent",
          isOverage |-> i > OrDefault(Some(L), DefaultEmailLimit),
          overageCost |-> IF i > OrDefault(Some(L), DefaultEmailLimit) THEN r ELSE 0,
          sentAt |-> 0 ] ]

InitCustomWith(Limits, Rates, Useds) ==
    /\ \E L \in Limits, r \in Rates, u \in Useds :
          /\ tenants = [t \in ExistingTenants |-> CustomRow(L, r, u)]
          /\ emailUsageLogs = CustomLogs(L, r, u)
    /\ smsUsageLogs = << >>
    /\ emailOverageInvoices = << >>
    /\ smsOverageInvoices = InitSmsInvoices
    /\ stripe = [customers |-> 0, invoices |-> << >>]
    /\ now = 0
    /\ pc = [p \in Procs |-> "idle"]
    /\ local = [p \in Procs |-> NoLocal]
    /\ result = NoResult
    /\ sends = 0
    /\ events = 0
    /\ rateLimitMap = << >>

InitCustom == InitCustomWith({0, 2}, {0, 10}, {0, 3})

\* Sends and usage queries of a tenant with a custom limit, 0 included.
SpecCustom == InitCustom /\ [][MeterNext]_vars

GenerateNext ==
    \E p \in Procs :
        \/ \E t \in TenantIds, start \in BillingPeriodStarts, end \in BillingPeriodEnds :
               GenerateMonthlyInvoice_FindTenant(p, t, start, end)
        \/ GenerateMonthlyInvoice_Existing(p)
        \/ GenerateMonthlyInvoice_Insert(p)

\* Invoice generation requests for a tenant with a custom limit, below or
\* above it.
SpecGenerate == InitCustom /\ [][GenerateNext]_vars

\* The tenant of the invoice example: 620 emails sent, rate 0.10, tax 25 %,
\* with the limit set to 500 or to 0.
InitExample == InitCustomWith({0, DefaultEmailLimit}, {10}, {DefaultEmailLimit + 120})

\* Invoice generation requests for the tenant of the example.
SpecExample == InitExample /\ [][GenerateNext]_vars

\* The billed tenant with its December invoice: still pending and not yet
\* sent to the provider, or sent (provider customer 1, provider invoice 1)
\* and since then paid or failed.
InitInvoiced ==
    /\ \E status \in {"pending", "paid", "failed"} :
          LET row == InvoiceValues("t1", 0, 30, BilledRow(2)) IN
          IF status = "pending"
          THEN /\ tenants = [t \in ExistingTenants |-> BilledRow(2)]
               /\ emailOverageInvoices = << row >>
               /\ stripe = [customers |-> 0, invoices |-> << >>]
          ELSE /\ tenants = [t \in ExistingTenants |->
                                [BilledRow(2) EXCEPT !.stripeCustomerId = Some(1)]]
               /\ emailOverageInvoices =
                     << [row EXCEPT !.stripeInvoiceId = Some(1),
                                    !.status = status,
                                    !.paidAt = IF status = "paid" THEN Some(1) ELSE None] >>
               /\ stripe = [customers |-> 1,
                            invoices |-> << [customer |-> 1, invoiceId |-> 1,
                                             amount |-> Some(row.totalAmount),
                                             status |-> IF status = "paid" THEN "paid"
                                                        ELSE "open"] >>]
    /\ emailUsageLogs = BilledLogs(2)
    /\ smsUsageLogs = << >>
    /\ smsOverageInvoices = InitSmsInvoices
    /\ now = 0
    /\ pc = [p \in Procs |-> "idle"]
    /\ local = [p \in Procs |-> NoLocal]
    /\ result = NoResult
    /\ sends = 0
    /\ events = 0
    /\ rateLimitMap = << >>

RemoteNext ==
    \E p \in Procs :
        \/ \E t \in TenantIds, id \in 1..MaxInvoices :
               CreateStripeInvoice_FindInvoice(p, t, id)
        \/ CreateStripeInvoice_FindTenant(p)
        \/ CreateStripeInvoice_CustomerCreate(p)
        \/ CreateStripeInvoice_SaveCustomer(p)
        \/ CreateStripeInvoice_InvoiceCreate(p)
        \/ CreateStripeInvoice_InvoiceItem(p)
        \/ CreateStripeInvoice_Finalize(p)
        \/ CreateStripeInvoice_SaveInvoice(p)

\* createStripeInvoice requests for an invoice that is pending, paid or failed.
SpecRemote == InitInvoiced /\ [][RemoteNext]_vars

\* ------------------------------------- stripeWebhook.ts: verifyStripeWebhook
\* The provider signs a payload with the endpoint's secret; the signature is
\* modelled as the pair of what was signed and the key it was signed with.
WebhookSecret == "whsec_endpoint"
SigningKeys == {WebhookSecret, "whsec_other"}
Sign(payload, key) == <<payload, key>>

EventTypes == {"invoice.payment_succeeded", "invoice.payment_failed",
               "customer.subscription.updated", "charge.refunded"}
StripeEvents == [type : EventTypes, stripeInvoiceId : EventInvoiceIds, paidAt : {1}]
Signatures == {Sign(e, k) : e \in StripeEvents, k \in SigningKeys}

\* line 25, stripe.webhooks.constructEvent: the parsed payload when the
\* signature is the payload's under the secret; otherwise it throws (None).
constructEvent(payload, signature, secret) ==
    IF signature = Sign(payload, secret) THEN Some(payload) ELSE None

\* lines 19-29: the event, or Error("Webhook signature verification failed").
verifyStripeWebhook(payload, signature, webhookSecret) ==
    constructEvent(payload, signature, webhookSecret)

\* The webhook endpoint: the raw body and its stripe-signature header go
\* through verifyStripeWebhook, and only the event it returns is given to
\* handleStripeWebhook(event), lines 148-174, which runs up to the first query
\* of the handler it dispatches to.
Webhook_Receive(p, payload, signature) ==
    LET verified == verifyStripeWebhook(payload, signature, WebhookSecret) IN
    IF verified = None
    THEN /\ pc[p] = "idle"
         /\ events < MaxEvents
         /\ events' = events + 1
         /\ Finish(p, Thrown(p, "verifyStripeWebhook", "Error"))
         /\ UNCHANGED <<db, stripe, now, rateLimitMap, sends>>
    ELSE LET event == Val(verified) IN
         CASE event.type = "invoice.payment_succeeded" ->
                  PaymentSucceeded_FindEmail(p, event.stripeInvoiceId, event.paidAt)
           [] event.type = "invoice.payment_failed" ->
                  PaymentFailed_FindEmail(p, event.stripeInvoiceId)
           [] event.type = "customer.subscription.updated" ->
                  /\ pc[p] = "idle"
                  /\ events < MaxEvents
                  /\ events' = events + 1
                  /\ Finish(p, Returned(p, event.type, [type |-> "subscription"]))
                  /\ UNCHANGED <<db, stripe, now, rateLimitMap, sends>>
           [] OTHER ->
                  /\ pc[p] = "idle"
                  /\ events < MaxEvents
                  /\ events' = events + 1
                  /\ Finish(p, Returned(p, event.type, [type |-> "null"]))
                  /\ UNCHANGED <<db, stripe, now, rateLimitMap, sends>>

WebhookNext ==
    \E p \in Procs :
        \/ \E payload \in StripeEvents, signature \in Signatures :
               Webhook_Receive(p, payload, signature)
        \/ PaymentSucceeded_UpdateEmail(p)
        \/ PaymentSucceeded_FindSms(p)
        \/ PaymentSucceeded_UpdateSms(p)
        \/ PaymentFailed_UpdateEmail(p)
        \/ PaymentFailed_FindSms(p)
        \/ PaymentFailed_UpdateSms(p)
        \/ \E sid \in EventInvoiceIds, status \in {"paid", "failed"},
              paidAt \in {None} \cup {Some(x) : x \in PaidAts} :
               HandleStripeWebhook_Find(p, sid, status, paidAt)
        \/ HandleStripeWebhook_UpdateInvoice(p)
        \/ HandleStripeWebhook_ResetCharge(p)

\* Every way a payment notification comes in: the webhook endpoint and the
\* handleStripeWebhook procedure of the billing router.
SpecWebhook == InitMirrored /\ [][WebhookNext]_vars

\* ------------------------------------ trackEmailSend: a statement that fails
\* emailLimits.ts lines 119-136: the update and the insert are two awaited
\* statements outside any transaction. When the database rejects the one the
\* request is suspended at (or the process stops there), the handler ends
\* with the error and the statement writes nothing; what ran before stays.
TrackEmailSend_Throws(p) ==
    /\ pc[p] \in {"trackEmailSend_update", "trackEmailSend_log"}
    /\ Finish(p, Thrown(p, "trackEmailSend", "INTERNAL_SERVER_ERROR"))
    /\ UNCHANGED <<db, stripe, now, rateLimitMap, sends, events>>

FailingSendNext ==
    \/ SendNext
    \/ \E p \in Procs : TrackEmailSend_Throws(p)

\* Concurrent send requests, any of whose statements may fail.
SpecFailingSend == Init /\ [][FailingSendNext]_vars

RolloverNext ==
    \/ Tick
    \/ \E p \in Procs :
        \/ \E t \in TenantIds : GetUsage_Find(p, t)
        \/ GetUsage_Reset(p)
        \/ \E t \in TenantIds, start \in BillingPeriodStarts, end \in BillingPeriodEnds :
               GenerateMonthlyInvoice_FindTenant(p, t, start, end)
        \/ GenerateMonthlyInvoice_Existing(p)
        \/ GenerateMonthlyInvoice_Insert(p)

\* The billed tenant at the end of December: the month turns, usage is
\* queried, invoices are generated.
SpecRollover == InitBilled /\ [][RolloverNext]_vars

\* Invoice generation requests, for any periods, for the billed tenant.
SpecPeriods == InitBilled /\ [][GenerateNext]_vars

MonthNext ==
    \/ Tick
    \/ \E p \in Procs :
        \/ \E t \in TenantIds : TrackEmailSend_Find(p, t)
        \/ TrackEmailSend_Update(p)
        \/ TrackEmailSend_Log(p)
        \/ \E t \in TenantIds : GetUsage_Find(p, t)
        \/ GetUsage_Reset(p)

\* Email sends and email usage queries across a month boundary.
SpecMonth == Init /\ [][MonthNext]_vars

\* ----------------------------------- payment of an invoice at the provider
\* The provider sends invoice.payment_succeeded for an invoice of its own
\* that has been finalized; the event goes to handleInvoicePaymentSucceeded.
Provider_PaymentSucceeded(p, sid, paidAt) ==
    /\ \/ sid = 0    \* the provider's invoice of the SMS invoice
       \/ /\ sid \in DOMAIN stripe.invoices
          /\ stripe.invoices[sid].status = "open"
    /\ PaymentSucceeded_FindEmail(p, sid, paidAt)

\* The steps with which request p, once started, runs on to its end.
ReconcileStep(p) ==
    \/ CreateStripeInvoice_FindTenant(p)
    \/ CreateStripeInvoice_CustomerCreate(p)
    \/ CreateStripeInvoice_SaveCustomer(p)
    \/ CreateStripeInvoice_InvoiceCreate(p)
    \/ CreateStripeInvoice_InvoiceItem(p)
    \/ CreateStripeInvoice_Finalize(p)
    \/ CreateStripeInvoice_SaveInvoice(p)
    \/ PaymentSucceeded_UpdateEmail(p)
    \/ PaymentSucceeded_FindSms(p)
    \/ PaymentSucceeded_UpdateSms(p)

ReconcileNext ==
    \E p \in Procs :
        \/ \E t \in TenantIds, id \in 1..MaxInvoices :
               CreateStripeInvoice_FindInvoice(p, t, id)
        \/ \E sid \in EventInvoiceIds, paidAt \in PaidAts :
               Provider_PaymentSucceeded(p, sid, paidAt)
        \/ CreateStripeInvoice_FindTenant(p)
        \/ CreateStripeInvoice_CustomerCreate(p)
        \/ CreateStripeInvoice_SaveCustomer(p)
        \/ CreateStripeInvoice_InvoiceCreate(p)
        \/ CreateStripeInvoice_InvoiceItem(p)
        \/ CreateStripeInvoice_Finalize(p)
        \/ CreateStripeInvoice_SaveInvoice(p)
        \/ PaymentSucceeded_UpdateEmail(p)
        \/ PaymentSucceeded_FindSms(p)
        \/ PaymentSucceeded_UpdateSms(p)

\* createStripeInvoice requests and the provider's payment notifications.
\* Requests arrive or not; a request that has started is run to its end by
\* the event loop, each awaited statement completing in turn.
SpecReconcile ==
    /\ InitInvoiced
    /\ [][ReconcileNext]_vars
    /\ \A p \in Procs : WF_vars(ReconcileStep(p))

\* ------------------------------------------- _core/schema.ts: rateLimit
\* rateLimitedProcedure is rateLimit(100, 15 * 60 * 1000); the model keeps the
\* limiter with a few requests per window and a window of a few clock steps.
\* In this part the clock `now` is Date.now(), counted in those steps.
Users == {None, Some("u1")}                  \* ctx.user?.id?.toString()
Ips == {None, Some("ip1")}                   \* ctx.req?.ip

\* line 947: the user id, else the address, else "anonymous".
Identifier(user, ip) ==
    IF user # None THEN Val(user) ELSE IF ip # None THEN Val(ip) ELSE "anonymous"

\* The rate limiter is watched until a window opened at the start has ended.
MaxTime == windowMs + 1

\* Date.now() moves on.
ClockAdvance ==
    /\ now < MaxTime
    /\ now' = now + 1
    /\ UNCHANGED <<db, stripe, pc, local, result, sends, events, rateLimitMap>>

\* rateLimit with the request of a full window still let through.
RateLimit_OffByOne(p, user, ip) ==
    LET identifier == Identifier(user, ip) IN
    /\ pc[p] = "idle"
    /\ IF identifier \in DOMAIN rateLimitMap /\ now < rateLimitMap[identifier].resetAt
       THEN IF rateLimitMap[identifier].count > maxRequests
            THEN /\ Finish(p, Thrown(p, "rateLimit", "TOO_MANY_REQUESTS"))
                 /\ UNCHANGED rateLimitMap
            ELSE /\ rateLimitMap' =
                       [rateLimitMap EXCEPT ![identifier].count = @ + 1]
                 /\ Finish(p, Returned(p, "rateLimit", [identifier |-> identifier]))
       ELSE /\ rateLimitMap' =
                  (identifier :> [count |-> 1, resetAt |-> now + windowMs])
                     @@ rateLimitMap
            /\ Finish(p, Returned(p, "rateLimit", [identifier |-> identifier]))
    /\ UNCHANGED <<db, stripe, now, sends, events>>

\* lines 946-969: the middleware runs without awaiting anything up to its
\* call of next(): look the identifier up, reject, count, or open a window.
RateLimit(p, user, ip) ==
    LET identifier == Identifier(user, ip) IN
    /\ pc[p] = "idle"
    /\ IF identifier \in DOMAIN rateLimitMap /\ now < rateLimitMap[identifier].resetAt
       THEN IF rateLimitMap[identifier].count >= maxRequests
            THEN /\ Finish(p, Thrown(p, "rateLimit", "TOO_MANY_REQUESTS"))
                 /\ UNCHANGED rateLimitMap
            ELSE /\ rateLimitMap' =
                       [rateLimitMap EXCEPT ![identifier].count = @ + 1]
                 /\ Finish(p, Returned(p, "rateLimit", [identifier |-> identifier]))
       ELSE /\ rateLimitMap' =
                  (identifier :> [count |-> 1, resetAt |-> now + windowMs])
                     @@ rateLimitMap
            /\ Finish(p, Returned(p, "rateLimit", [identifier |-> identifier]))
    /\ UNCHANGED <<db, stripe, now, sends, events>>

RateLimitNext ==
    \/ ClockAdvance
    \/ \E p \in Procs, user \in Users, ip \in Ips : RateLimit(p, user, ip)

\* Requests of several users and addresses through the rate limiter, from a
\* server that has just started (an empty rateLimitMap).
SpecRateLimit == InitBilled /\ [][RateLimitNext]_vars

\* ------------------------------------------------------------------ claims
AllIdle == \A p \in Procs : pc[p] = "idle"
LogsOf(logs, t) == Cardinality({i \in DOMAIN logs : logs[i].tenantId = t})

\* C1: no lost updates.  When N send requests of one tenant and resource have
\* run concurrently within one billing period and all have completed, the
\* stored counter has increased by exactly N (it started the period at 0, and
\* every completed send has written its usage log row).  Checked under
\* SpecSend; the code's read-then-write loses increments.
C1_NoLostUpdates ==
    AllIdle =>
        \A t \in DOMAIN tenants :
            /\ Val(tenants[t].emailsSentThisMonth) = LogsOf(emailUsageLogs, t)
            /\ Val(tenants[t].smsSentThisMonth) = LogsOf(smsUsageLogs, t)

\* C2: invoice uniqueness.  In every reachable state, also after invoice
\* requests for one tenant and period that interleave between the existence
\* check and the insert, at most one invoice row exists per (tenant id,
\* billing period start, billing period end); the table holds one resource type.
C2_InvoiceUnique ==
    \A i, j \in DOMAIN emailOverageInvoices :
        ( /\ emailOverageInvoices[i].tenantId = emailOverageInvoices[j].tenantId
          /\ emailOverageInvoices[i].billingPeriodStart
                = emailOverageInvoices[j].billingPeriodStart
          /\ emailOverageInvoices[i].billingPeriodEnd
                = emailOverageInvoices[j].billingPeriodEnd )
        => i = j

\* An invoice row for (t, start, end) is stored.
InvoiceStored(t, start, end) ==
    \E i \in DOMAIN emailOverageInvoices :
        /\ emailOverageInvoices[i].tenantId = t
        /\ emailOverageInvoices[i].billingPeriodStart = start
        /\ emailOverageInvoices[i].billingPeriodEnd = end

\* C3: generateInvoice is idempotent-safe.  Once a row for (tenant, start, end)
\* is stored it stays stored, so every later request for the same tuple makes
\* its existence check with the row present; that request then fails with
\* CONFLICT, ends there, and leaves the invoice table as it was.
C3_SecondCallConflicts ==
    [][ /\ \A i \in DOMAIN emailOverageInvoices :
              /\ i \in DOMAIN emailOverageInvoices'
              /\ emailOverageInvoices'[i].tenantId = emailOverageInvoices[i].tenantId
              /\ emailOverageInvoices'[i].billingPeriodStart
                    = emailOverageInvoices[i].billingPeriodStart
              /\ emailOverageInvoices'[i].billingPeriodEnd
                    = emailOverageInvoices[i].billingPeriodEnd
        /\ \A p \in Procs :
              ( /\ GenerateMonthlyInvoice_Existing(p)
                /\ InvoiceStored(local[p].tenantId, local[p].billingPeriodStart,
                                 local[p].billingPeriodEnd) )
              => /\ result' = Thrown(p, "generateMonthlyInvoice", "CONFLICT")
                 /\ pc'[p] = "idle"
                 /\ emailOverageInvoices' = emailOverageInvoices
      ]_vars

\* C3 witness: a request has just been refused with CONFLICT while the one
\* invoice of an earlier request is stored.
C3_Witness ==
    /\ result.op = "generateMonthlyInvoice"
    /\ result.code = "CONFLICT"
    /\ Len(emailOverageInvoices) = 1

Terminal == {"paid", "failed", "cancelled"}

\* C4: the invoice status state machine.  Along every sequence of payment
\* notifications a status changes only from pending (to paid or to failed);
\* a paid, failed or cancelled invoice keeps its status for ever.
C4_StatusStateMachine ==
    [][ /\ \A i \in DOMAIN emailOverageInvoices :
              emailOverageInvoices[i].status \in Terminal
              => emailOverageInvoices'[i].status = emailOverageInvoices[i].status
        /\ \A i \in DOMAIN smsOverageInvoices :
              smsOverageInvoices[i].status \in Terminal
              => smsOverageInvoices'[i].status = smsOverageInvoices[i].status
      ]_vars

\* Request p handles a payment_succeeded notification that was delivered
\* before: the invoice it found was already paid, with the same paid-at time,
\* and no other request is in flight (the first delivery has completed).
DuplicatePaid(p) ==
    /\ \A q \in Procs \ {p} : pc[q] = "idle"
    /\ local[p].invoice.status = "paid"
    /\ \/ /\ local[p].op = "invoice.payment_succeeded"
          /\ local[p].invoice.paidAt = Some(local[p].paidAt)
       \/ /\ local[p].op = "handleStripeWebhook"
          /\ local[p].status = "paid"
          /\ local[p].invoice.paidAt = local[p].paidAt

\* C5: duplicate delivery is idempotent.  The second delivery of a
\* payment_succeeded notification (with sends of the tenant in between)
\* changes neither the invoice nor the tenant's accrued overage charge, and
\* it ends without an error.  Checked under SpecProcedure, where the first
\* delivery has come in through the same procedure and has reset the charge.
C5_DuplicateDeliveryNoOp ==
    [][ \A p \in Procs :
          /\ (PaymentSucceeded_UpdateEmail(p) /\ DuplicatePaid(p)
                => /\ emailOverageInvoices' = emailOverageInvoices
                   /\ tenants' = tenants
                   /\ result'.code = "OK")
          /\ (HandleStripeWebhook_UpdateInvoice(p) /\ DuplicatePaid(p)
                => /\ emailOverageInvoices' = emailOverageInvoices
                   /\ tenants' = tenants)
          /\ (HandleStripeWebhook_ResetCharge(p) /\ DuplicatePaid(p)
                => /\ emailOverageInvoices' = emailOverageInvoices
                   /\ tenants' = tenants
                   /\ result'.code = "OK")
      ]_vars

\* C6: a success notification for a pending invoice moves it to paid and, in
\* the same reconciliation, sets the owning tenant's accrued overage charge to
\* zero: when the handler that found the invoice pending returns, the invoice
\* is paid and the charge is 0.00.  For the webhook event handler and for the
\* handleStripeWebhook procedure.
C6_SuccessPaysAndResets ==
    [][ \A p \in Procs :
          /\ (PaymentSucceeded_UpdateEmail(p) /\ local[p].invoice.status = "pending"
                => /\ emailOverageInvoices'[local[p].id].status = "paid"
                   /\ tenants'[local[p].invoice.tenantId].emailOverageCharge = Some(0))
          /\ (HandleStripeWebhook_ResetCharge(p) /\ local[p].invoice.status = "pending"
                => /\ emailOverageInvoices'[local[p].id].status = "paid"
                   /\ tenants'[local[p].invoice.tenantId].emailOverageCharge = Some(0))
      ]_vars

\* C7: a notification (success or failure) for an invoice that is not pending
\* is accepted and is a no-op: the writes of the handler that found the
\* invoice not pending change neither an invoice's status or paid-at time nor
\* the tenant's accrued overage charge.
C7_NonPendingNoOp ==
    [][ \A p \in Procs :
          ( /\ \/ PaymentSucceeded_UpdateEmail(p)
                \/ PaymentSucceeded_UpdateSms(p)
                \/ PaymentFailed_UpdateEmail(p)
                \/ PaymentFailed_UpdateSms(p)
                \/ HandleStripeWebhook_UpdateInvoice(p)
                \/ HandleStripeWebhook_ResetCharge(p)
            /\ local[p].invoice.status # "pending" )
          => /\ emailOverageInvoices' = emailOverageInvoices
             /\ smsOverageInvoices' = smsOverageInvoices
             /\ tenants' = tenants
      ]_vars

\* No invoice, email or SMS, carries the Stripe invoice id sid.
NoLocalInvoice(sid) ==
    /\ FindByStripeId(emailOverageInvoices, sid) = None
    /\ FindByStripeId(smsOverageInvoices, sid) = None

\* C8: a notification whose Stripe invoice id matches no local invoice is
\* logged and acknowledged: the handler raises no error to its caller and
\* leaves every invoice and every tenant row unchanged.
C8_UnknownInvoiceAcknowledged ==
    [][ \A p \in Procs :
          /\ \A sid \in EventInvoiceIds, status \in {"paid", "failed"},
                paidAt \in {None} \cup {Some(x) : x \in PaidAts} :
                ( HandleStripeWebhook_Find(p, sid, status, paidAt) /\ NoLocalInvoice(sid) )
                => /\ result'.code = "OK"
                   /\ pc'[p] = "idle"
                   /\ db' = db
          /\ ( /\ (PaymentSucceeded_FindSms(p) \/ PaymentFailed_FindSms(p))
                /\ NoLocalInvoice(local[p].stripeInvoiceId) )
              => /\ result'.code = "OK"
                 /\ pc'[p] = "idle"
                 /\ db' = db
      ]_vars

\* A reset was persisted between the read of send request p and now: the row
\* no longer belongs to the period p read.
ResetSinceRead(p) ==
    /\ local[p].tenantId \in DOMAIN tenants
    /\ local[p].tenant.currentMonthStart # None
    /\ tenants[local[p].tenantId].currentMonthStart # local[p].tenant.currentMonthStart

\* C9: a send and a rollover reset of one tenant's counter are linearizable.
\* With the reset persisted between the send's read and the send's write, the
\* two serial orders leave 0 (send, reset) or 1 (reset, send) in the counter;
\* the write of the send must leave one of them, and never the pre-reset
\* count plus one.
C9_SendResetLinearizable ==
    [][ \A p \in Procs :
          /\ (TrackEmailSend_Update(p) /\ ResetSinceRead(p)
                => Val(tenants'[local[p].tenantId].emailsSentThisMonth) \in {0, 1})
          /\ (TrackSmsSend_Update(p) /\ ResetSinceRead(p)
                => Val(tenants'[local[p].tenantId].smsSentThisMonth) \in {0, 1})
      ]_vars

\* The response sent last is a usage view of operation op computed at month m.
LastUsageAt(op, m) == result.op = op /\ result.code = "OK" /\ result.at = m
StoredStart(t) == tenants[t].currentMonthStart

\* C10: two getUsage calls in a row (the second starts when the first one's
\* response is the last response sent; result.at is the month m the first one
\* ran in).
\*  - clock still in month m: the second call performs no reset, it returns at
\*    once, writes nothing, and the stored period start is the one the first
\*    call left, the first day of m;
\*  - clock past a month boundary: the second call decides to reset for the
\*    new month, and its reset step stores counter 0, charge 0.00 and the first
\*    day of the new month, and returns the reset view (used 0).
\* For the email and for the SMS handler.
C10_GetUsageTwice ==
    [][ \A p \in Procs, t \in ExistingTenants :
          /\ (LastUsageAt("getUsage", now) /\ GetUsage_Find(p, t)
                => /\ pc'[p] = "idle"
                   /\ tenants' = tenants
                   /\ StoredStart(t) = Some(FirstOfMonth(now)))
          /\ (result.op = "getUsage" /\ result.code = "OK" /\ result.at < now
                 /\ GetUsage_Find(p, t)
                => /\ pc'[p] = "getUsage_reset"
                   /\ local'[p].now = now)
          /\ (LastUsageAt("sms.getUsage", now) /\ SmsGetUsage_Find(p, t)
                => /\ pc'[p] = "idle"
                   /\ tenants' = tenants
                   /\ StoredStart(t) = Some(FirstOfMonth(now)))
          /\ (result.op = "sms.getUsage" /\ result.code = "OK" /\ result.at < now
                 /\ SmsGetUsage_Find(p, t)
                => /\ pc'[p] = "smsGetUsage_reset"
                   /\ local'[p].now = now)
          /\ (local[p].op = "getUsage" /\ local[p].tenantId = t /\ GetUsage_Reset(p)
                => /\ tenants'[t].emailsSentThisMonth = Some(0)
                   /\ tenants'[t].emailOverageCharge = Some(0)
                   /\ tenants'[t].currentMonthStart = Some(FirstOfMonth(local[p].now))
                   /\ result'.code = "OK" /\ result'.value.used = 0
                   /\ result'.value.overageCharge = 0)
          /\ (local[p].op = "sms.getUsage" /\ local[p].tenantId = t /\ SmsGetUsage_Reset(p)
                => /\ tenants'[t].smsSentThisMonth = Some(0)
                   /\ tenants'[t].smsOverageCharge = Some(0)
                   /\ tenants'[t].currentMonthStart = Some(FirstOfMonth(local[p].now))
                   /\ result'.code = "OK" /\ result'.value.used = 0
                   /\ result'.value.overageCharge = 0)
      ]_vars

\* C10 witness: a second getUsage call, started in the month after the one
\* the previous call ran in, has decided to reset and is about to persist it,
\* with sends counted in the old period.
C10_Witness ==
    \E p \in Procs :
        /\ pc[p] = "getUsage_reset"
        /\ LastUsageAt("getUsage", 0)
        /\ local[p].now = 1
        /\ Val(tenants[local[p].tenantId].emailsSentThisMonth) > 0
        /\ Val(tenants[local[p].tenantId].smsSentThisMonth) > 0

\* Every other request slot is idle: request p runs on its own.
OthersIdle(p) == \A q \in Procs \ {p} : pc[q] = "idle"
\* No usage log row of tenant t in logs was written in the running month.
NoneSentThisMonth(logs, t) ==
    \A i \in DOMAIN logs : logs[i].tenantId = t => logs[i].sentAt < now

\* C11: per-resource rollover.  A usage query of one resource that runs on
\* its own, when nothing of that resource was sent in the running month, either
\* resets that resource's counter or reports used = 0, whatever a usage query
\* of the other resource has done in the running month; the same with the
\* two resources swapped.
C11_PerResourceRollover ==
    [][ \A p \in Procs, t \in ExistingTenants :
          /\ (NoneSentThisMonth(smsUsageLogs, t) /\ OthersIdle(p) /\ SmsGetUsage_Find(p, t)
                => \/ pc'[p] = "smsGetUsage_reset"
                   \/ result'.value.used = 0)
          /\ (NoneSentThisMonth(emailUsageLogs, t) /\ OthersIdle(p) /\ GetUsage_Find(p, t)
                => \/ pc'[p] = "getUsage_reset"
                   \/ result'.value.used = 0)
      ]_vars

\* Months since year 0 of a stored date.
MonthIndex(d) == d.year * 12 + d.month

\* C12: the tenant metering state invariant.  After every step both counters
\* and both accrued charges are >= 0, a stored period start is the first day
\* of a month, and the step has not moved the period start to an earlier
\* month nor unset it.
C12_MeteringInvariant ==
    [][ \A t \in DOMAIN tenants :
          /\ Val(tenants'[t].emailsSentThisMonth) >= 0
          /\ Val(tenants'[t].emailOverageCharge) >= 0
          /\ Val(tenants'[t].smsSentThisMonth) >= 0
          /\ Val(tenants'[t].smsOverageCharge) >= 0
          /\ tenants'[t].currentMonthStart # None
                => Val(tenants'[t].currentMonthStart).day = 1
          /\ tenants[t].currentMonthStart # None
                => /\ tenants'[t].currentMonthStart # None
                   /\ MonthIndex(Val(tenants'[t].currentMonthStart))
                        >= MonthIndex(Val(tenants[t].currentMonthStart))
      ]_vars

\* What recordSend has to compute from the stored count u, the accrued charge
\* c, the configured limit L and the overage rate r.
RecordSendOf(u, c, L, r) ==
    [ used |-> u + 1,
      isOverage |-> u + 1 > L,
      overageCost |-> IF u + 1 > L THEN r ELSE 0,
      totalOverageCharge |-> c + (IF u + 1 > L THEN r ELSE 0),
      remaining |-> Max(0, L - (u + 1)) ]

\* The send that request p has computed is the one RecordSendOf asks for.
ComputedSend(p, want) ==
    /\ local'[p].used = want.used
    /\ local'[p].isOverage = want.isOverage
    /\ local'[p].overageCost = want.overageCost
    /\ local'[p].totalOverageCharge = want.totalOverageCharge
    /\ Max(0, local'[p].limit - local'[p].used) = want.remaining

\* C13: the result of recordSend.  With the row read holding count u, charge
\* c, a configured limit L >= 0 (0 included) and rate r, a send that goes
\* ahead computes count u+1, isOverage = (u+1 > L), incremental cost r if
\* isOverage else 0, charge c + incremental cost and remaining max(0, L-(u+1));
\* its update stores that count and charge, and its last step returns those
\* values.  For trackEmailSend and trackSmsSend.
C13_RecordSendResult ==
    [][ \A p \in Procs :
          /\ \A t \in ExistingTenants :
                /\ (tenants[t].emailMonthlyLimit # None /\ TrackEmailSend_Find(p, t)
                      => ComputedSend(p, RecordSendOf(
                             Val(tenants[t].emailsSentThisMonth),
                             Val(tenants[t].emailOverageCharge),
                             Val(tenants[t].emailMonthlyLimit),
                             Val(tenants[t].emailOverageRate))))
                /\ (tenants[t].smsPackageActive = Some(TRUE) /\ TrackSmsSend_Find(p, t)
                      => ComputedSend(p, RecordSendOf(
                             Val(tenants[t].smsSentThisMonth),
                             Val(tenants[t].smsOverageCharge),
                             Val(tenants[t].smsPackageSize),
                             Val(tenants[t].smsOverageRate))))
          /\ (TrackEmailSend_Update(p)
                => /\ tenants'[local[p].tenantId].emailsSentThisMonth = Some(local[p].used)
                   /\ tenants'[local[p].tenantId].emailOverageCharge
                        = Some(local[p].totalOverageCharge))
          /\ (TrackSmsSend_Update(p)
                => /\ tenants'[local[p].tenantId].smsSentThisMonth = Some(local[p].used)
                   /\ tenants'[local[p].tenantId].smsOverageCharge
                        = Some(local[p].totalOverageCharge))
          /\ (TrackEmailSend_Log(p) \/ TrackSmsSend_Log(p)
                => /\ result'.code = "OK"
                   /\ result'.value.totalUsed = local[p].used
                   /\ result'.value.isOverage = local[p].isOverage
                   /\ result'.value.overageCost = local[p].overageCost
                   /\ result'.value.remaining = Max(0, local[p].limit - local[p].used))
      ]_vars

\* C14: the failures of recordSend.  A send for a tenant id that has no row
\* ends at once with NOT_FOUND, and an SMS send of a tenant whose SMS package
\* is not active ends at once with FORBIDDEN; the failed call leaves every
\* table (counters, charges, usage logs) as it was.
C14_RecordSendFailures ==
    [][ \A p \in Procs, t \in TenantIds :
          /\ (t \notin DOMAIN tenants /\ TrackEmailSend_Find(p, t)
                => /\ result' = Thrown(p, "trackEmailSend", "NOT_FOUND")
                   /\ pc'[p] = "idle"
                   /\ db' = db)
          /\ (t \notin DOMAIN tenants /\ TrackSmsSend_Find(p, t)
                => /\ result' = Thrown(p, "trackSmsSend", "NOT_FOUND")
                   /\ pc'[p] = "idle"
                   /\ db' = db)
          /\ (t \in DOMAIN tenants /\ tenants[t].smsPackageActive # Some(TRUE)
                 /\ TrackSmsSend_Find(p, t)
                => /\ result' = Thrown(p, "trackSmsSend", "FORBIDDEN")
                   /\ pc'[p] = "idle"
                   /\ db' = db)
      ]_vars

\* C14 witness: an SMS send has just been refused with FORBIDDEN for a tenant
\* without an active package that has an email in its usage log.
C14_Witness ==
    /\ result.op = "trackSmsSend"
    /\ result.code = "FORBIDDEN"
    /\ tenants["t1"].smsPackageActive = Some(FALSE)
    /\ LogsOf(emailUsageLogs, "t1") = 1

\* max(0, used - limit) of a tenant row, with the limit as configured.
UnitsOverLimit(tenant) ==
    Max(0, Val(tenant.emailsSentThisMonth) - Val(tenant.emailMonthlyLimit))

\* C15: an invoice only for a non-zero overage.  A request that has read a
\* tenant row with max(0, used - limit) = 0, and finds no invoice for its
\* period, fails with BAD_REQUEST (no overage) and ends; no request with such
\* a row adds an invoice row; and every invoice row stored has
\* emailsOverLimit > 0.
C15_InvoiceOnlyForOverage ==
    [][ /\ \A p \in Procs :
              /\ ( /\ GenerateMonthlyInvoice_Existing(p)
                    /\ UnitsOverLimit(local[p].tenant) = 0 )
                  => /\ pc'[p] = "idle"
                     /\ emailOverageInvoices' = emailOverageInvoices
                     /\ result'.code \in {"BAD_REQUEST", "CONFLICT"}
                     /\ ~InvoiceStored(local[p].tenantId, local[p].billingPeriodStart,
                                       local[p].billingPeriodEnd)
                          => result' = Thrown(p, "generateMonthlyInvoice", "BAD_REQUEST")
        /\ \A i \in DOMAIN emailOverageInvoices' :
              emailOverageInvoices'[i].emailsOverLimit > 0
      ]_vars

\* C15 witness: a request for a tenant that has sent nothing has just been
\* refused with BAD_REQUEST, and no invoice is stored.
C15_Witness ==
    /\ result.op = "generateMonthlyInvoice"
    /\ result.code = "BAD_REQUEST"
    /\ tenants["t1"].emailsSentThisMonth = Some(0)
    /\ emailOverageInvoices = << >>

\* num / den rounded to the nearest integer, halves up.
RoundHalfUp(num, den) == (2 * num + den) \div (2 * den)

\* C16: invoice arithmetic.  For a tenant row with used > limit (the limit as
\* configured), the row a request prepares for the insert has emailsOverLimit
\* = used - limit, subtotal = emailsOverLimit * overageRate, vatAmount =
\* subtotal * vatRate / 100 at two decimals and totalAmount = subtotal +
\* vatAmount, and the insert stores exactly that row.  Amounts are in
\* hundredths, the tax rate in hundredths of a percent.
C16_InvoiceArithmetic ==
    [][ \A p \in Procs :
          /\ ( /\ GenerateMonthlyInvoice_Existing(p)
                /\ pc'[p] = "generateMonthlyInvoice_insert"
                /\ Val(local[p].tenant.emailsSentThisMonth)
                     > Val(local[p].tenant.emailMonthlyLimit) )
              => LET tenant == local[p].tenant
                     row == local'[p].row
                     units == Val(tenant.emailsSentThisMonth) - Val(tenant.emailMonthlyLimit)
                 IN /\ row.emailsOverLimit = units
                    /\ row.subtotal = units * Val(tenant.emailOverageRate)
                    /\ row.vatAmount
                         = RoundHalfUp(row.subtotal * Val(tenant.vatRate), 10000)
                    /\ row.totalAmount = row.subtotal + row.vatAmount
          /\ GenerateMonthlyInvoice_Insert(p)
              => emailOverageInvoices' = Append(emailOverageInvoices, local[p].row)
      ]_vars

\* C17: percentUsed.  A usage view computed from a row with count used and a
\* configured limit reports percentUsed = round-half-up(100 * used / limit)
\* when the limit is > 0 and 0 when the limit is 0.  For the email view (limit
\* emailMonthlyLimit) and the SMS view (limit smsPackageSize).
C17_PercentUsed ==
    [][ \A p \in Procs, t \in ExistingTenants :
          /\ ( /\ GetUsage_Find(p, t)
                /\ pc'[p] = "idle"
                /\ tenants[t].emailMonthlyLimit # None )
              => LET used == Val(tenants[t].emailsSentThisMonth)
                     limit == Val(tenants[t].emailMonthlyLimit)
                 IN result'.value.percentUsed
                      = IF limit > 0 THEN RoundHalfUp(100 * used, limit) ELSE 0
          /\ ( /\ SmsGetUsage_Find(p, t)
                /\ pc'[p] = "idle"
                /\ tenants[t].smsPackageSize # None )
              => LET used == Val(tenants[t].smsSentThisMonth)
                     limit == Val(tenants[t].smsPackageSize)
                 IN result'.value.percentUsed
                      = IF limit > 0 THEN RoundHalfUp(100 * used, limit) ELSE 0
      ]_vars

\* C18: createStripeInvoice on an invoice of the caller's tenant that is not
\* pending fails with BAD_REQUEST in its first step: the request ends, nothing
\* is created at the provider, and no invoice or tenant row changes.
C18_NotPendingRefused ==
    [][ \A p \in Procs, t \in TenantIds, id \in 1..MaxInvoices :
          ( /\ id \in DOMAIN emailOverageInvoices
            /\ emailOverageInvoices[id].tenantId = t
            /\ emailOverageInvoices[id].status # "pending"
            /\ CreateStripeInvoice_FindInvoice(p, t, id) )
          => /\ result' = Thrown(p, "createStripeInvoice", "BAD_REQUEST")
             /\ pc'[p] = "idle"
             /\ stripe' = stripe
             /\ db' = db
      ]_vars

\* C18 witness: a request for the paid invoice has just been refused, the
\* provider holding the one customer and the one invoice it held before.
C18_Witness ==
    /\ result.op = "createStripeInvoice"
    /\ result.code = "BAD_REQUEST"
    /\ emailOverageInvoices[1].status = "paid"
    /\ stripe.customers = 1
    /\ Len(stripe.invoices) = 1

\* Request p makes one of the four calls to the provider.
RemoteCall(p) ==
    \/ CreateStripeInvoice_CustomerCreate(p)
    \/ CreateStripeInvoice_InvoiceCreate(p)
    \/ CreateStripeInvoice_InvoiceItem(p)
    \/ CreateStripeInvoice_Finalize(p)

\* C19: a provider call of createStripeInvoice (customer create, invoice
\* create, invoice item, finalize) that fails or times out ends the request
\* with the error and leaves the invoice table as it was: the caller's
\* invoice is still pending and keeps the provider invoice id it had.
C19_RemoteFailureKeepsInvoice ==
    [][ \A p \in Procs :
          ( pc[p] # "idle" /\ RemoteCall(p) /\ pc'[p] = "idle" )
          => /\ result' = Thrown(p, "createStripeInvoice", "STRIPE_ERROR")
             /\ emailOverageInvoices' = emailOverageInvoices
             /\ emailOverageInvoices'[local[p].invoiceId].status = "pending"
      ]_vars

\* C19 witness: a provider call has just failed after the provider invoice
\* was created; the local invoice is pending and has no provider invoice id.
C19_Witness ==
    /\ result.op = "createStripeInvoice"
    /\ result.code = "STRIPE_ERROR"
    /\ Len(stripe.invoices) = 1
    /\ stripe.invoices[1].status = "draft"
    /\ emailOverageInvoices[1].status = "pending"
    /\ emailOverageInvoices[1].stripeInvoiceId = None

\* No createStripeInvoice request other than p is in flight.
NoOtherBridgeCall(p) == \A q \in Procs \ {p} : local[q].op # "createStripeInvoice"

PaymentOps == {"invoice.payment_succeeded", "invoice.payment_failed",
               "handleStripeWebhook"}

\* C21: verification precedes reconciliation: whenever a request starts
\* handling a payment notification (handleInvoicePaymentSucceeded,
\* handleInvoicePaymentFailed or the handleStripeWebhook procedure), it is the
\* webhook endpoint passing on a payload whose signature verifyStripeWebhook
\* accepted.
C21_VerifiedBeforeReconciled ==
    [][\A p \in Procs :
          (pc[p] = "idle" /\ local'[p].op \in PaymentOps) =>
              \E payload \in StripeEvents, signature \in Signatures :
                  /\ verifyStripeWebhook(payload, signature, WebhookSecret) # None
                  /\ Webhook_Receive(p, payload, signature)]_vars

\* The webhook endpoint alone keeps that order: a payload with a signature
\* that does not verify changes no table.
C21_EndpointAlone ==
    [][\A p \in Procs :
          (pc[p] = "idle" /\ local'[p].op \in PaymentOps
             /\ local'[p].op # "handleStripeWebhook") =>
              \E payload \in StripeEvents, signature \in Signatures :
                  /\ verifyStripeWebhook(payload, signature, WebhookSecret) # None
                  /\ Webhook_Receive(p, payload, signature)]_vars

IsPrefix(s, t) == Len(s) <= Len(t) /\ SubSeq(t, 1, Len(s)) = s

\* The step of request p is a send of kind op returning successfully.
SendReturns(p, op) ==
    /\ local[p].op = op
    /\ pc'[p] = "idle"
    /\ result'.to = p
    /\ result'.code = "OK"

\* The step appends exactly one row to the ledger, for the tenant of request
\* p, with the isOverage flag and the cost that the request returns.
AppendsEventOf(p, logs, logsAfter) ==
    /\ Len(logsAfter) = Len(logs) + 1
    /\ IsPrefix(logs, logsAfter)
    /\ LET e == logsAfter[Len(logsAfter)] IN
          /\ e.tenantId = local[p].tenantId
          /\ e.isOverage = result'.value.isOverage
          /\ e.overageCost = result'.value.overageCost

\* C22: the usage ledger is append-only: every successful trackEmailSend /
\* trackSmsSend appends exactly one usage event carrying that send's isOverage
\* flag and incremental cost, the ledger grows only by such a send, and no
\* step modifies or removes an event already in it.
C22_LedgerAppendOnly ==
    [][/\ IsPrefix(emailUsageLogs, emailUsageLogs')
       /\ IsPrefix(smsUsageLogs, smsUsageLogs')
       /\ \A p \in Procs :
             /\ SendReturns(p, "trackEmailSend") =>
                    AppendsEventOf(p, emailUsageLogs, emailUsageLogs')
             /\ SendReturns(p, "trackSmsSend") =>
                    AppendsEventOf(p, smsUsageLogs, smsUsageLogs')
       /\ emailUsageLogs' # emailUsageLogs =>
              \E p \in Procs : SendReturns(p, "trackEmailSend")
       /\ smsUsageLogs' # smsUsageLogs =>
              \E p \in Procs : SendReturns(p, "trackSmsSend")]_vars

\* Two email sends returned; the second was above the limit and its event is
\* the second of the ledger, after the first send's event.
C22_Witness ==
    /\ Len(emailUsageLogs) = 2
    /\ ~emailUsageLogs[1].isOverage
    /\ emailUsageLogs[2].isOverage
    /\ emailUsageLogs[2].overageCost = DefaultEmailRate
    /\ result.op = "trackEmailSend"
    /\ result.code = "OK"
    /\ result.value.isOverage

\* C23: local state is never left partially updated: once trackEmailSend has
\* ended, by returning or by failing at any of its statements, the emails
\* counted on the tenant row are no more than the usage events in the ledger:
\* a counter increment is never persisted without its usage event.
C23_NoPartialUpdate ==
    AllIdle =>
        \A t \in DOMAIN tenants :
            OrDefault(tenants[t].emailsSentThisMonth, 0) <= LogsOf(emailUsageLogs, t)

\* C24: every created invoice starts with status pending, no remote invoice
\* id, no paid-at, and a due date 30 days after the end of its billing period.
C24_NewInvoiceState ==
    [][Len(emailOverageInvoices') > Len(emailOverageInvoices) =>
          /\ Len(emailOverageInvoices') = Len(emailOverageInvoices) + 1
          /\ LET invoice == emailOverageInvoices'[Len(emailOverageInvoices')] IN
                /\ invoice.status = "pending"
                /\ invoice.stripeInvoiceId = None
                /\ invoice.paidAt = None
                /\ invoice.dueDate = invoice.billingPeriodEnd + 30]_vars

\* generateMonthlyInvoice has just returned the invoice it created for the
\* period ending on 2025-12-31.
C24_Witness ==
    /\ result.op = "generateMonthlyInvoice"
    /\ result.code = "OK"
    /\ result.value.invoiceId \in DOMAIN emailOverageInvoices
    /\ emailOverageInvoices[result.value.invoiceId].billingPeriodEnd = 30
    /\ emailOverageInvoices[result.value.invoiceId].dueDate = 60

\* Emails above the limit that tenant t sent in month m, from the usage ledger.
OverageOfMonth(t, m) ==
    Max(0, Cardinality({i \in DOMAIN emailUsageLogs :
                           emailUsageLogs[i].tenantId = t /\ emailUsageLogs[i].sentAt = m})
           - Val(tenants[t].emailMonthlyLimit))

\* C25: overage survives rollover: when December has ended with the tenant
\* above its limit and no invoice exists for December, generateMonthlyInvoice
\* for December goes on to insert an invoice whose emailsOverLimit is
\* December's overage, also after getUsage has done the rollover reset.
C25_OverageSurvivesRollover ==
    [][\A p \in Procs :
          (/\ pc[p] = "generateMonthlyInvoice_existing"
           /\ pc'[p] # pc[p]
           /\ now >= 1
           /\ local[p].billingPeriodStart = 0
           /\ local[p].billingPeriodEnd = 30
           /\ ~InvoiceStored(local[p].tenantId, 0, 30)
           /\ OverageOfMonth(local[p].tenantId, 0) > 0)
          => /\ pc'[p] = "generateMonthlyInvoice_insert"
             /\ local'[p].row.emailsOverLimit = OverageOfMonth(local[p].tenantId, 0)]_vars

RECURSIVE BilledUnits(_, _)
\* The sum of emailsOverLimit over the first n invoices that belong to t.
BilledUnits(t, n) ==
    IF n = 0 THEN 0
    ELSE BilledUnits(t, n - 1)
           + (IF emailOverageInvoices[n].tenantId = t
              THEN emailOverageInvoices[n].emailsOverLimit ELSE 0)

\* No two invoices of the table have the same (tenant, period start, period end).
PeriodKeysDistinct ==
    \A i, j \in DOMAIN emailOverageInvoices :
        (/\ emailOverageInvoices[i].tenantId = emailOverageInvoices[j].tenantId
         /\ emailOverageInvoices[i].billingPeriodStart
              = emailOverageInvoices[j].billingPeriodStart
         /\ emailOverageInvoices[i].billingPeriodEnd
              = emailOverageInvoices[j].billingPeriodEnd) => i = j

\* C26: no unit is billed twice: whatever (periodStart, periodEnd) arguments
\* generateMonthlyInvoice was called with during one billing period, the
\* emailsOverLimit of a tenant's invoices (each for a different period key)
\* add up to no more than the overage consumed,
\* max(0, emailsSentThisMonth - emailMonthlyLimit).
C26_NoUnitBilledTwice ==
    PeriodKeysDistinct =>
        \A t \in DOMAIN tenants :
            BilledUnits(t, Len(emailOverageInvoices))
              <= Max(0, Val(tenants[t].emailsSentThisMonth)
                        - Val(tenants[t].emailMonthlyLimit))

\* C27: the counter counts only the current period: the first trackEmailSend
\* of a month (no usage event of the tenant carries the clock's month yet, no
\* other request is in progress) computes the new total 1, whether or not
\* getUsage was called since the month began.
C27_CounterOfCurrentPeriod ==
    [][\A p \in Procs, t \in ExistingTenants :
          (/\ OthersIdle(p)
           /\ NoneSentThisMonth(emailUsageLogs, t)
           /\ TrackEmailSend_Find(p, t))
          => local'[p].used = 1]_vars

\* The provider's finalized invoices made for local invoice i.
FinalizedFor(i) ==
    {r \in DOMAIN stripe.invoices :
        stripe.invoices[r].invoiceId = i /\ stripe.invoices[r].status # "draft"}

\* C28: at most one remote invoice per local invoice: whatever
\* createStripeInvoice calls are made for a local invoice (repeated,
\* concurrent, retried), at most one invoice finalized at the provider
\* belongs to it.
C28_OneRemoteInvoice ==
    \A i \in DOMAIN emailOverageInvoices : Cardinality(FinalizedFor(i)) <= 1

\* A payment_succeeded event for provider invoice r is being handled; r is the
\* one finalized provider invoice made for local invoice i, which is pending.
PaymentDelivered(r, i) ==
    /\ r \in DOMAIN stripe.invoices
    /\ stripe.invoices[r].invoiceId = i
    /\ FinalizedFor(i) = {r}
    /\ emailOverageInvoices[i].status = "pending"
    /\ \E p \in Procs : /\ local[p].op = "invoice.payment_succeeded"
                        /\ local[p].stripeInvoiceId = r

\* C29: payment is eventually reconciled: once the provider has delivered
\* payment_succeeded for the provider invoice that createStripeInvoice made
\* for a pending local invoice, and every started request runs to its end, the
\* local invoice eventually has status paid.
C29_PaymentReconciled ==
    \A r \in 1..MaxRemote, i \in 1..MaxInvoices :
        (i \in DOMAIN emailOverageInvoices /\ PaymentDelivered(r, i))
            ~> (i \in DOMAIN emailOverageInvoices
                  /\ emailOverageInvoices[i].status = "paid")

\* The window of identifier id is open: a record is stored and the clock has
\* not reached its resetAt.
WindowOpen(id) == id \in DOMAIN rateLimitMap /\ now < rateLimitMap[id].resetAt

\* C30: per-user rate limiting.  A request of an identifier whose window is
\* open and holds maxRequests counted requests is rejected with
\* TOO_MANY_REQUESTS and leaves the stored records unchanged; one with fewer
\* is admitted and counted in the same window; a request without an open
\* window (none yet, or the clock at or after resetAt) is admitted and opens a
\* window with count 1 that lasts windowMs.  Other identifiers' records are
\* left alone, and no window ever counts more than maxRequests admissions.
C30_RateLimit ==
    [][\A p \in Procs, user \in Users, ip \in Ips :
          RateLimit(p, user, ip) =>
              LET id == Identifier(user, ip) IN
              /\ (WindowOpen(id) /\ rateLimitMap[id].count >= maxRequests)
                     => /\ result' = Thrown(p, "rateLimit", "TOO_MANY_REQUESTS")
                        /\ rateLimitMap' = rateLimitMap
              /\ (WindowOpen(id) /\ rateLimitMap[id].count < maxRequests)
                     => /\ result'.code = "OK"
                        /\ rateLimitMap'[id] =
                              [count |-> rateLimitMap[id].count + 1,
                               resetAt |-> rateLimitMap[id].resetAt]
              /\ ~WindowOpen(id)
                     => /\ result'.code = "OK"
                        /\ rateLimitMap'[id] = [count |-> 1, resetAt |-> now + windowMs]
              /\ \A other \in DOMAIN rateLimitMap \ {id} :
                     /\ other \in DOMAIN rateLimitMap'
                     /\ rateLimitMap'[other] = rateLimitMap[other]
              /\ \A any \in DOMAIN rateLimitMap' :
                     rateLimitMap'[any].count <= maxRequests]_vars

\* User u1 is in its second window, has used it up, and a request has just
\* been rejected.
C30_Witness ==
    /\ DOMAIN rateLimitMap = {"u1"}
    /\ rateLimitMap["u1"].resetAt > windowMs
    /\ now < rateLimitMap["u1"].resetAt
    /\ rateLimitMap["u1"].count = maxRequests
    /\ result.op = "rateLimit"
    /\ result.code = "TOO_MANY_REQUESTS"

====
